---- MODULE Spec2Model ----
(***************************************************************************)
(* A model of nt-hive: the base-block validation, the resolution of data   *)
(* offsets to cell ranges, the key-node read operations (subkey, subpath,  *)
(* value), the decoding of value data (Big Data included) and the clearing *)
(* of the volatile subkey counts, over a byte-level image of a registry    *)
(* hive.                                                                   *)
(*                                                                         *)
(* The hive buffer is split as the code splits it (hive.rs:98-110):        *)
(*   base_block  the first bytes of the 4096-byte base block (everything   *)
(*               up to and including the checksum field; the rest of the   *)
(*               block is never read by the modelled code)                 *)
(*   data        the cell area: its length `len` and its leading bytes     *)
(*               `bytes`; every byte of the area past `bytes` is zero      *)
(*   big_data_slices  the BigDataSlices iterator a data() call returned    *)
(*   log              what the iterator calls made so far returned, in     *)
(*                    order; for clear_volatile_subkeys, the Key Nodes     *)
(*                    whose count the running call has written, in order   *)
(*   stack            the frames of a running clear_volatile_subkeys: the  *)
(*                    Key Node or subkeys iterator of each nested call     *)
(*   iterator         the subkey or value iterator the calls are made on   *)
(* TLC integers are 32 bits wide.  A stored u32 is kept as its four bytes; *)
(* it is turned into a number only when its top bit is clear, and the      *)
(* sentinel 0xFFFFFFFF is recognised on the bytes.  An i32 is decoded in   *)
(* full, -2^31 included.                                                   *)
(***************************************************************************)
EXTENDS Integers, Sequences, FiniteSets, TLC

VARIABLES base_block, data, overflow_checks, call, res, big_data_slices, log,
          stack, iterator

vars == << base_block, data, overflow_checks, call, res, big_data_slices, log,
          stack, iterator >>

----------------------------------------------------------------------------
(* Little-endian encodings and decodings of the on-disk integers.           *)

Zeros(n) == [i \in 1..n |-> 0]

LE16(n) == << n % 256, n \div 256 >>

\* the four bytes of a u32 below 2^31
LE32(n) == << n % 256, (n \div 256) % 256, (n \div 65536) % 256, n \div 16777216 >>

\* the four bytes of an i32 (two's complement)
LEI32(n) ==
    IF n >= 0 THEN LE32(n)
    ELSE LET m == (n + 2147483647) + 1
         IN  << m % 256, (m \div 256) % 256, (m \div 65536) % 256, (m \div 16777216) + 128 >>

SentinelBytes == << 255, 255, 255, 255 >>

\* bytes [off, off+n) of a byte sequence (0-based offsets)
Slice(b, off, n) == [i \in 1..n |-> b[off + i]]

U16Of(b) == b[1] + 256 * b[2]

\* u32::from_le_bytes, for a value below 2^31
U32Of(b) == b[1] + 256 * b[2] + 65536 * b[3] + 16777216 * b[4]

\* i32::from_le_bytes
I32Of(b) ==
    IF b[4] < 128 THEN U32Of(b)
    ELSE (16777216 * (b[4] - 256)) + (b[1] + 256 * b[2] + 65536 * b[3])

I32_MIN == (0 - 2147483647) - 1

XorBit(a, b, i) == (((a \div (2 ^ i)) % 2) + ((b \div (2 ^ i)) % 2)) % 2

XorByte(a, b) ==
    XorBit(a, b, 0) + 2 * XorBit(a, b, 1) + 4 * XorBit(a, b, 2) + 8 * XorBit(a, b, 3)
    + 16 * XorBit(a, b, 4) + 32 * XorBit(a, b, 5) + 64 * XorBit(a, b, 6)
    + 128 * XorBit(a, b, 7)

\* `^=` on two u32 kept as four bytes each
Xor32(x, y) == [i \in 1..4 |-> XorByte(x[i], y[i])]

----------------------------------------------------------------------------
(* Results of the modelled calls.                                           *)

Ok(v) == [kind |-> "Ok", val |-> v]

Err(e) == [kind |-> "Err", err |-> e]

None == [kind |-> "None"]

\* a failed assert!, unwrap or arithmetic overflow check: the call unwinds
Panic == [kind |-> "Panic"]

NoCall == [kind |-> "NoCall"]

IsOk(r) == r.kind = "Ok"

\* `let v = e;` followed by F(v): e is computed once
Let(e, F(_)) == CHOOSE out \in {F(v) : v \in {e}} : TRUE

\* `let v = r?;` (or iter_try!) followed by F(v): a call that did not return
\* Ok ends the caller with the same outcome
Try(r, F(_)) == CHOOSE out \in {IF IsOk(v) THEN F(v.val) ELSE v : v \in {r}} : TRUE

\* `let v = r.unwrap();` followed by F(v): unwrap panics on none
Unwrap(r, F(_)) == CHOOSE out \in {IF IsOk(v) THEN F(v.val) ELSE Panic : v \in {r}} : TRUE

----------------------------------------------------------------------------
(* The base block (hive.rs:53-71).                                          *)

BASE_BLOCK_SIZE == 4096

OFF_signature == 0

OFF_primary_sequence_number == 4

OFF_secondary_sequence_number == 8

OFF_major_version == 20

OFF_minor_version == 24

OFF_file_type == 28

OFF_file_format == 32

OFF_root_cell_offset == 36

OFF_data_size == 40

OFF_clustering_factor == 44

OFF_checksum == 508

Regf == << 114, 101, 103, 102 >>

BBField(off) == Slice(base_block, off, 4)

DataLen == data.len

\* Hive::offset_of_field: the distance of a field from the start of the
\* buffer; the assertion demands a strictly positive distance.
offset_of_field(abs) == IF abs > 0 THEN Ok(abs) ELSE Panic

\* Hive::offset_of_data_offset
offset_of_data_offset(o) == o + BASE_BLOCK_SIZE

\* an error whose payload needs offset_of_field(abs): the call panics when
\* the assertion inside offset_of_field fails
ErrAt(abs, e) == Try(offset_of_field(abs), LAMBDA offset : Err([e EXCEPT !.offset = offset]))

validate_signature ==
    IF BBField(OFF_signature) = Regf THEN Ok("unit")
    ELSE ErrAt(OFF_signature,
               [name |-> "InvalidFourByteSignature", offset |-> 0,
                expected |-> Regf, actual |-> BBField(OFF_signature)])

validate_sequence_numbers ==
    IF BBField(OFF_primary_sequence_number) = BBField(OFF_secondary_sequence_number)
    THEN Ok("unit")
    ELSE Err([name |-> "SequenceNumberMismatch",
              primary |-> BBField(OFF_primary_sequence_number),
              secondary |-> BBField(OFF_secondary_sequence_number)])

major_version == U32Of(BBField(OFF_major_version))

minor_version == U32Of(BBField(OFF_minor_version))

WindowsNT4 == 3

validate_version ==
    IF major_version = 1 /\ minor_version >= WindowsNT4 THEN Ok("unit")
    ELSE Err([name |-> "UnsupportedVersion", major |-> major_version,
              minor |-> minor_version])

validate_file_type ==
    IF U32Of(BBField(OFF_file_type)) = 0 THEN Ok("unit")
    ELSE Err([name |-> "UnsupportedFileType", expected |-> 0,
              actual |-> U32Of(BBField(OFF_file_type))])

validate_file_format ==
    IF U32Of(BBField(OFF_file_format)) = 1 THEN Ok("unit")
    ELSE Err([name |-> "UnsupportedFileFormat", expected |-> 1,
              actual |-> U32Of(BBField(OFF_file_format))])

validate_data_size ==
    LET data_size == U32Of(BBField(OFF_data_size))
    IN  IF data_size % 4096 # 0
        THEN ErrAt(OFF_data_size,
                   [name |-> "InvalidSizeFieldAlignment", offset |-> 0,
                    size |-> data_size, expected_alignment |-> 4096])
        ELSE IF data_size > DataLen
        THEN ErrAt(OFF_data_size,
                   [name |-> "InvalidSizeField", offset |-> 0,
                    expected |-> data_size, actual |-> DataLen])
        ELSE Ok("unit")

validate_clustering_factor ==
    IF U32Of(BBField(OFF_clustering_factor)) = 1 THEN Ok("unit")
    ELSE Err([name |-> "UnsupportedClusteringFactor", expected |-> 1,
              actual |-> U32Of(BBField(OFF_clustering_factor))])

\* the XOR of the 4-byte chunks lo, lo+1, .. hi-1 of b (hi > lo), halving the
\* range so that the evaluation stays shallow
RECURSIVE XorWords(_, _, _)
XorWords(b, lo, hi) ==
    IF hi = lo + 1 THEN Slice(b, 4 * lo, 4)
    ELSE LET mid == (lo + hi) \div 2
         IN  Xor32(XorWords(b, lo, mid), XorWords(b, mid, hi))

\* the XOR as it is, without the adjustments
calculated_checksum_raw(b) == XorWords(b, 0, OFF_checksum \div 4)

\* calculated_checksum after the two adjustments of hive.rs:232-236
calculated_checksum(b) ==
    LET x == XorWords(b, 0, OFF_checksum \div 4)
    IN  IF x = << 0, 0, 0, 0 >> THEN << 1, 0, 0, 0 >>
        ELSE IF x = SentinelBytes THEN << 254, 255, 255, 255 >>
        ELSE x

validate_checksum ==
    IF BBField(OFF_checksum) = calculated_checksum(base_block) THEN Ok("unit")
    ELSE Err([name |-> "InvalidChecksum", expected |-> BBField(OFF_checksum),
              actual |-> calculated_checksum(base_block)])

\* `?` : the first result that is not Ok ends the chain
AndThen(r, next) == IF r.kind = "Ok" THEN next ELSE r

\* Hive::validate
validate ==
    AndThen(validate_signature,
    AndThen(validate_sequence_numbers,
    AndThen(validate_version,
    AndThen(validate_file_type,
    AndThen(validate_file_format,
    AndThen(validate_data_size,
    AndThen(validate_clustering_factor,
            validate_checksum)))))))

\* Hive::new on a buffer that without_validation accepts (>= 4096 bytes)
Hive_new == AndThen(validate, Ok("hive"))

----------------------------------------------------------------------------
(* Base blocks the validation is run on.                                    *)

\* the 508 bytes preceding the checksum field
BaseBlockPrefix(sig, pseq, sseq, major, minor, ftype, fformat, root, dsize, clust, pad) ==
    sig \o LE32(pseq) \o LE32(sseq) \o Zeros(8) \o LE32(major) \o LE32(minor)
        \o LE32(ftype) \o LE32(fformat) \o root \o LE32(dsize) \o LE32(clust)
        \o Zeros(64) \o pad \o Zeros(392)

\* a base block whose checksum field holds `cks`
BaseBlockWith(prefix, cks) == prefix \o cks

\* a base block with the checksum the code expects
BaseBlockValid(prefix) == prefix \o calculated_checksum(prefix \o Zeros(4))

NotRegf == << 114, 101, 103, 103 >>

ValidateInputs ==
    { BaseBlockPrefix(sig, 1, sseq, major, minor, ftype, fformat, LE32(32), dsize, clust, Zeros(4)) :
        sig \in {Regf, NotRegf}, sseq \in {1, 2}, major \in {1, 2}, minor \in {2, 3, 5},
        ftype \in {0, 1}, fformat \in {1, 2}, dsize \in {0, 4096, 4100},
        clust \in {1, 2} }

InitValidate ==
    /\ \E p \in ValidateInputs :
         \E good \in BOOLEAN :
            base_block = IF good THEN BaseBlockValid(p)
                         ELSE BaseBlockWith(p, << 7, 7, 7, 7 >>)
    /\ \E len \in {0, 4096} : data = [len |-> len, bytes |-> << >>]
    /\ overflow_checks = FALSE
    /\ call = [op |-> "init"]
    /\ res = NoCall
    /\ big_data_slices = NoCall
    /\ log = << >>
    /\ stack = << >>
    /\ iterator = NoCall

\* Hive::new(bytes)
New ==
    /\ call.op = "init"
    /\ call' = [op |-> "new"]
    /\ res' = Hive_new
    /\ UNCHANGED << base_block, data, overflow_checks, big_data_slices, log, stack, iterator >>

\* Hive::without_validation(bytes) followed by Hive::validate
Validate ==
    /\ call.op = "init"
    /\ call' = [op |-> "validate"]
    /\ res' = validate
    /\ UNCHANGED << base_block, data, overflow_checks, big_data_slices, log, stack, iterator >>

NextValidate == New \/ Validate

SpecValidate == InitValidate /\ [][NextValidate]_vars


----------------------------------------------------------------------------
(* Base blocks for the validation of the checksum alone: the first two      *)
(* words vary, the other 125 words before the checksum are zero.            *)

ChecksumWords ==
    { << 0, 0, 0, 0 >>, << 255, 255, 255, 255 >>, << 1, 0, 0, 0 >>,
      << 254, 255, 255, 255 >>, Regf, << 7, 7, 7, 7 >> }

InitChecksum ==
    /\ \E first \in ChecksumWords, second \in ChecksumWords :
          \E stored \in ChecksumWords \cup {Xor32(first, second)} :
             base_block = first \o second \o Zeros(OFF_checksum - 8) \o stored
    /\ data = [len |-> 0, bytes |-> << >>]
    /\ overflow_checks = FALSE
    /\ call = [op |-> "init"]
    /\ res = NoCall
    /\ big_data_slices = NoCall
    /\ log = << >>
    /\ stack = << >>
    /\ iterator = NoCall

\* hive.validate_checksum()
ValidateChecksum ==
    /\ call.op = "init"
    /\ call' = [op |-> "validate_checksum"]
    /\ res' = validate_checksum
    /\ UNCHANGED << base_block, data, overflow_checks, big_data_slices, log, stack, iterator >>

SpecChecksum == InitChecksum /\ [][ValidateChecksum]_vars

----------------------------------------------------------------------------
(* The cell area and Hive::cell_range_from_data_offset (hive.rs:112-164).   *)

\* byte i (0-based) of the cell area
DataByte(i) == IF i < Len(data.bytes) THEN data.bytes[i + 1] ELSE 0

DataSlice(off, n) == [i \in 1..n |-> DataByte(off + i - 1)]

Range(s, e) == [start |-> s, end |-> e]

\* Range::len
RangeLen(r) == IF r.end > r.start THEN r.end - r.start ELSE 0

\* helpers::byte_subrange.  The sums of the model stay far below the width
\* of usize, so checked_add never fails.
byte_subrange(range, byte_count) ==
    LET subrange_end == range.start + byte_count
    IN  IF subrange_end > range.end THEN None
        ELSE Ok(Range(range.start, subrange_end))

CELL_HEADER_SIZE == 4

\* What `i32::MIN.abs() as usize` is when overflow checks are off: abs wraps
\* to i32::MIN and the cast yields 2^64 - 2^31 (2^31 where usize has 32
\* bits), a multiple of 8 beyond every buffer.  The model keeps 2^30 for it:
\* also a multiple of 8 and beyond every modelled buffer.
WrappedAbsMin == 1073741824

\* `cell_size.abs() as usize` for cell_size <= 0, cell_size # i32::MIN
AbsUsize(n) == IF n = I32_MIN THEN WrappedAbsMin ELSE 0 - n

cell_range_from_data_offset(ob) ==
    IF ob = SentinelBytes THEN Panic
    ELSE
    Let(U32Of(ob), LAMBDA data_offset :
    Let(byte_subrange(Range(data_offset, DataLen), CELL_HEADER_SIZE), LAMBDA header_range :
        IF ~IsOk(header_range)
        THEN Err([name |-> "InvalidHeaderSize",
                  offset |-> offset_of_data_offset(data_offset),
                  expected |-> CELL_HEADER_SIZE,
                  actual |-> RangeLen(Range(data_offset, DataLen))])
        ELSE
        Let(I32Of(DataSlice(data_offset, 4)), LAMBDA cell_size_i32 :
            IF cell_size_i32 > 0
            THEN Err([name |-> "UnallocatedCell",
                      offset |-> offset_of_data_offset(data_offset),
                      size |-> cell_size_i32])
            ELSE IF cell_size_i32 = I32_MIN /\ overflow_checks
            THEN Panic
            ELSE
            Let(AbsUsize(cell_size_i32), LAMBDA cell_size :
                IF cell_size % 8 # 0
                THEN ErrAt(offset_of_data_offset(data_offset),
                           [name |-> "InvalidSizeFieldAlignment", offset |-> 0,
                            size |-> cell_size, expected_alignment |-> 8])
                ELSE
                Let(byte_subrange(Range(header_range.val.end, DataLen), cell_size),
                    LAMBDA cell_data_range :
                    IF ~IsOk(cell_data_range)
                    THEN ErrAt(offset_of_data_offset(data_offset),
                               [name |-> "InvalidSizeField", offset |-> 0,
                                expected |-> cell_size,
                                actual |-> RangeLen(Range(header_range.val.end, DataLen))])
                    ELSE Ok(cell_data_range.val))))))

----------------------------------------------------------------------------
(* Cell areas the offset resolution is run on: a buffer of zero bytes with  *)
(* one size field written into it.                                          *)

MaxCellArea == 24

CellSizes == {I32_MIN, 0 - 32, 0 - 24, 0 - 16, 0 - 12, 0 - 8, 0 - 4, 0, 8, 16}

CellAreaLens == {n \in 0..MaxCellArea : n % 4 = 0}

CellOffsets == {o \in 0..(MaxCellArea + 8) : o % 4 = 0 \/ o % 8 = 3}

\* a cell area of `len` bytes holding the size field `size` at offset `at`
CellArea(len, at, size) ==
    [len |-> len,
     bytes |-> [i \in 1..len |-> IF i > at /\ i <= at + 4 THEN LEI32(size)[i - at] ELSE 0]]

ValidBaseBlock(root) ==
    BaseBlockValid(BaseBlockPrefix(Regf, 1, 1, 1, 3, 0, 1, root, 0, 1, Zeros(4)))

InitCell ==
    /\ base_block = ValidBaseBlock(LE32(0))
    /\ \E len \in CellAreaLens : \E at \in {a \in CellOffsets : a + 4 <= len} \cup {0} :
         \E size \in CellSizes :
            data = CellArea(len, IF at + 4 <= len THEN at ELSE len, size)
    /\ overflow_checks \in BOOLEAN
    /\ call = [op |-> "init"]
    /\ res = NoCall
    /\ big_data_slices = NoCall
    /\ log = << >>
    /\ stack = << >>
    /\ iterator = NoCall

\* hive.cell_range_from_data_offset(o)
CellRange(ob) ==
    /\ call.op = "init"
    /\ call' = [op |-> "cell_range", offset |-> ob]
    /\ res' = cell_range_from_data_offset(ob)
    /\ UNCHANGED << base_block, data, overflow_checks, big_data_slices, log, stack, iterator >>

NextCell == \E ob \in {LE32(o) : o \in CellOffsets} \cup {SentinelBytes} : CellRange(ob)

SpecCell == InitCell /\ [][NextCell]_vars

----------------------------------------------------------------------------
(* Names.  A stored name is a string view over hive bytes, one byte per     *)
(* character (Latin-1) or UTF-16LE; a query is a &str, kept as its sequence *)
(* of Unicode scalar values.                                                *)

Latin1(bytes) == [enc |-> "Latin1", bytes |-> bytes]

Utf16LE(bytes) == [enc |-> "Utf16LE", bytes |-> bytes]

\* what an unpaired surrogate decodes to: no character
Invalid == 0 - 1

IsHighSurrogate(u) == u >= 55296 /\ u <= 56319

IsLowSurrogate(u) == u >= 56320 /\ u <= 57343

\* the 16-bit code units of a UTF-16LE byte string (a trailing odd byte is
\* not part of any unit)
CodeUnits(bytes) == [i \in 1..(Len(bytes) \div 2) |-> U16Of(Slice(bytes, 2 * (i - 1), 2))]

RECURSIVE DecodeUtf16(_)
DecodeUtf16(u) ==
    IF u = << >> THEN << >>
    ELSE IF IsHighSurrogate(u[1]) /\ Len(u) >= 2 /\ IsLowSurrogate(u[2])
    THEN << 65536 + (u[1] - 55296) * 1024 + (u[2] - 56320) >> \o DecodeUtf16(SubSeq(u, 3, Len(u)))
    ELSE IF IsHighSurrogate(u[1]) \/ IsLowSurrogate(u[1])
    THEN << Invalid >> \o DecodeUtf16(Tail(u))
    ELSE << u[1] >> \o DecodeUtf16(Tail(u))

\* the code points of a stored name
CodePoints(s) ==
    IF s.enc = "Latin1" THEN s.bytes ELSE DecodeUtf16(CodeUnits(s.bytes))

\* the case fold of one code point: to uppercase inside the Basic
\* Multilingual Plane (the letters a-z, the Latin-1 letters, the fullwidth
\* letters), unchanged above U+FFFF
CaseFold(c) ==
    IF c >= 97 /\ c <= 122 THEN c - 32
    ELSE IF c >= 224 /\ c <= 254 /\ c # 247 THEN c - 32
    ELSE IF c >= 65345 /\ c <= 65370 THEN c - 32
    ELSE c

Fold(cs) == [i \in 1..Len(cs) |-> CaseFold(cs[i])]

RECURSIVE CmpSeq(_, _)
CmpSeq(a, b) ==
    IF a = << >> /\ b = << >> THEN "Equal"
    ELSE IF a = << >> THEN "Less"
    ELSE IF b = << >> THEN "Greater"
    ELSE IF a[1] < b[1] THEN "Less"
    ELSE IF a[1] > b[1] THEN "Greater"
    ELSE CmpSeq(Tail(a), Tail(b))

\* NtHiveNameString::partial_cmp(&str): the lexicographic order of the
\* folded code points
partial_cmp(s, str) == CmpSeq(Fold(CodePoints(s)), Fold(str))

\* NtHiveNameString == &str
NameEq(s, str) == partial_cmp(s, str) = "Equal"

----------------------------------------------------------------------------
(* NtHiveString (string.rs): a string view over hive bytes, one byte per    *)
(* character or UTF-16LE, and its comparisons with a &str.                  *)

Ascii(bytes) == [enc |-> "Ascii", bytes |-> bytes]

\* str::as_bytes: the UTF-8 encoding of a sequence of Unicode scalar values
RECURSIVE as_bytes(_)
as_bytes(str) ==
    IF str = << >> THEN << >>
    ELSE Let(str[1], LAMBDA c :
             (IF c < 128 THEN << c >>
              ELSE IF c < 2048 THEN << 192 + (c \div 64), 128 + (c % 64) >>
              ELSE IF c < 65536
              THEN << 224 + (c \div 4096), 128 + ((c \div 64) % 64), 128 + (c % 64) >>
              ELSE << 240 + (c \div 262144), 128 + ((c \div 4096) % 64),
                      128 + ((c \div 64) % 64), 128 + (c % 64) >>)
             \o as_bytes(Tail(str)))

\* u8::to_ascii_lowercase / char::to_ascii_lowercase
to_ascii_lowercase(c) == IF c >= 65 /\ c <= 90 THEN c + 32 ELSE c

\* <[u8]>::eq_ignore_ascii_case
bytes_eq_ignore_ascii_case(a, b) ==
    /\ Len(a) = Len(b)
    /\ \A i \in 1..Len(a) : to_ascii_lowercase(a[i]) = to_ascii_lowercase(b[i])

\* the loop of eq_ignore_ascii_case and of eq_str over the decoded
\* characters of the name and the characters of the &str
RECURSIVE compare_chars(_, _, _)
compare_chars(utf16_iter, other_iter, ignore_ascii_case) ==
    IF utf16_iter = << >> /\ other_iter = << >> THEN TRUE
    ELSE IF utf16_iter = << >> \/ other_iter = << >> THEN FALSE
    ELSE IF utf16_iter[1] = Invalid THEN FALSE
    ELSE IF ignore_ascii_case
            /\ to_ascii_lowercase(utf16_iter[1]) # to_ascii_lowercase(other_iter[1])
    THEN FALSE
    ELSE IF ~ignore_ascii_case /\ utf16_iter[1] # other_iter[1] THEN FALSE
    ELSE compare_chars(Tail(utf16_iter), Tail(other_iter), ignore_ascii_case)

\* NtHiveString::eq_ignore_ascii_case
eq_ignore_ascii_case(self, other) ==
    IF self.enc = "Ascii" THEN bytes_eq_ignore_ascii_case(self.bytes, as_bytes(other))
    ELSE compare_chars(DecodeUtf16(CodeUnits(self.bytes)), other, TRUE)

\* NtHiveString::eq_str
eq_str(self, other) ==
    IF self.enc = "Ascii" THEN self.bytes = as_bytes(other)
    ELSE compare_chars(DecodeUtf16(CodeUnits(self.bytes)), other, FALSE)

----------------------------------------------------------------------------
(* Subkeys lists and Leafs (subkeys_list.rs, leaf.rs, index_root.rs).       *)

SUBKEYS_LIST_HEADER_SIZE == 4

SigOf(str) ==
    CASE str = "nk" -> << 110, 107 >>
      [] str = "vk" -> << 118, 107 >>
      [] str = "lf" -> << 108, 102 >>
      [] str = "lh" -> << 108, 104 >>
      [] str = "li" -> << 108, 105 >>
      [] str = "ri" -> << 114, 105 >>
      [] str = "db" -> << 100, 98 >>

\* a validation that takes an Index Root wherever a Leaf is taken
validate_signature_nested(header_range, index_root_supported) ==
    LET signature == DataSlice(header_range.start, 2)
    IN  IF signature \in {SigOf("lf"), SigOf("lh"), SigOf("li"), SigOf("ri")} THEN Ok("unit")
        ELSE ErrAt(offset_of_data_offset(header_range.start),
                   [name |-> "InvalidTwoByteSignature", offset |-> 0,
                    expected |-> IF index_root_supported THEN "lf|lh|li|ri" ELSE "lf|lh|li",
                    actual |-> signature])

\* SubkeysList::validate_signature
SubkeysList_validate_signature(header_range, index_root_supported) ==
    LET signature == DataSlice(header_range.start, 2)
    IN  IF signature \in {SigOf("lf"), SigOf("lh"), SigOf("li")} THEN Ok("unit")
        ELSE IF signature = SigOf("ri") /\ index_root_supported THEN Ok("unit")
        ELSE ErrAt(offset_of_data_offset(header_range.start),
                   [name |-> "InvalidTwoByteSignature", offset |-> 0,
                    expected |-> IF index_root_supported THEN "lf|lh|li|ri" ELSE "lf|lh|li",
                    actual |-> signature])

\* SubkeysList::new_internal
SubkeysList_new_internal(cell_range, index_root_supported) ==
    Let(Range(cell_range.start, cell_range.start + SUBKEYS_LIST_HEADER_SIZE),
        LAMBDA header_range :
        IF header_range.end > cell_range.end
        THEN Err([name |-> "InvalidHeaderSize",
                  offset |-> offset_of_data_offset(cell_range.start),
                  expected |-> SUBKEYS_LIST_HEADER_SIZE,
                  actual |-> RangeLen(cell_range)])
        ELSE Try(SubkeysList_validate_signature(header_range, index_root_supported),
                 LAMBDA unit :
                 Ok([header_range |-> header_range,
                     data_range |-> Range(header_range.end, cell_range.end)])))

\* SubkeysListHeader::count and the absolute offset of that field
SubkeysList_count(subkeys_list) == U16Of(DataSlice(subkeys_list.header_range.start + 2, 2))

SubkeysList_count_field_offset(subkeys_list) ==
    offset_of_data_offset(subkeys_list.header_range.start + 2)

\* LeafType::from_signature
LeafType_from_signature(signature) ==
    CASE signature = SigOf("lf") -> "Fast"
      [] signature = SigOf("lh") -> "Hash"
      [] signature = SigOf("li") -> "Index"
      [] OTHER -> "None"

\* LeafType::item_size
item_size(leaf_type) == IF leaf_type = "Index" THEN 4 ELSE 8

\* LeafItemRanges::new
LeafItemRanges_new(count, count_field_offset, data_range, leaf_type) ==
    Let(count * item_size(leaf_type), LAMBDA byte_count :
    Let(byte_subrange(data_range, byte_count), LAMBDA items_range :
        IF ~IsOk(items_range)
        THEN ErrAt(count_field_offset,
                   [name |-> "InvalidSizeField", offset |-> 0,
                    expected |-> byte_count, actual |-> RangeLen(data_range)])
        ELSE Ok([items_range |-> items_range.val, leaf_type |-> leaf_type])))

\* LeafItemRanges::size_hint / len
LeafItemRanges_len(it) == RangeLen(it.items_range) \div item_size(it.leaf_type)

\* LeafItemRanges::nth on a clone of the iterator: skip n items, then next
LeafItemRanges_nth(it, n) ==
    byte_subrange(Range(it.items_range.start + n * item_size(it.leaf_type),
                        it.items_range.end),
                  item_size(it.leaf_type))

\* LeafItemRanges::last on a clone of the iterator
LeafItemRanges_last(it) ==
    IF LeafItemRanges_len(it) = 0 THEN None
    ELSE LeafItemRanges_nth(it, LeafItemRanges_len(it) - 1)

\* LeafItemRange::key_node_offset: the four bytes of the stored offset
key_node_offset(leaf_item_range) == DataSlice(leaf_item_range.start, 4)

\* IndexRootItemRanges::new: `count` items of one u32 each
INDEX_ROOT_ITEM_SIZE == 4

IndexRootItemRanges_new(count, count_field_offset, data_range) ==
    Let(count * INDEX_ROOT_ITEM_SIZE, LAMBDA byte_count :
    Let(byte_subrange(data_range, byte_count), LAMBDA items_range :
        IF ~IsOk(items_range)
        THEN ErrAt(count_field_offset,
                   [name |-> "InvalidSizeField", offset |-> 0,
                    expected |-> byte_count, actual |-> RangeLen(data_range)])
        ELSE Ok([items_range |-> items_range.val])))

IndexRootItemRanges_len(it) == RangeLen(it.items_range) \div INDEX_ROOT_ITEM_SIZE

\* IndexRootItemRanges::nth on a clone of the iterator
IndexRootItemRanges_nth(it, n) ==
    byte_subrange(Range(it.items_range.start + n * INDEX_ROOT_ITEM_SIZE, it.items_range.end),
                  INDEX_ROOT_ITEM_SIZE)

\* IndexRootItemRange::subkeys_list_offset
subkeys_list_offset(index_root_item_range) == DataSlice(index_root_item_range.start, 4)

\* LeafItemRanges::from_index_root_item_range
from_index_root_item_range(index_root_item_range) ==
    Try(cell_range_from_data_offset(subkeys_list_offset(index_root_item_range)),
        LAMBDA cell_range :
    Try(SubkeysList_new_internal(cell_range, FALSE), LAMBDA subkeys_list :
    Let(SubkeysList_count(subkeys_list), LAMBDA count :
    Let(SubkeysList_count_field_offset(subkeys_list), LAMBDA count_field_offset :
        IF count = 0
        THEN ErrAt(count_field_offset,
                   [name |-> "InvalidSizeField", offset |-> 0,
                    expected |-> 1, actual |-> 0])
        ELSE Let(LeafType_from_signature(DataSlice(subkeys_list.header_range.start, 2)),
                 LAMBDA leaf_type :
                 IF leaf_type = "None" THEN Panic
                 ELSE LeafItemRanges_new(count, count_field_offset,
                                         subkeys_list.data_range, leaf_type))))))

\* SubKeyNodes::new: the subkeys list in a cell, as an Index Root or a Leaf
SubKeyNodes_new(cell_range) ==
    Try(SubkeysList_new_internal(cell_range, TRUE), LAMBDA subkeys_list :
    Let(DataSlice(subkeys_list.header_range.start, 2), LAMBDA signature :
        IF signature = SigOf("ri")
        THEN Try(IndexRootItemRanges_new(SubkeysList_count(subkeys_list),
                                         SubkeysList_count_field_offset(subkeys_list),
                                         subkeys_list.data_range),
                 LAMBDA iter : Ok([variant |-> "IndexRoot", iter |-> iter]))
        ELSE Try(LeafItemRanges_new(SubkeysList_count(subkeys_list),
                                    SubkeysList_count_field_offset(subkeys_list),
                                    subkeys_list.data_range,
                                    LeafType_from_signature(signature)),
                 LAMBDA iter : Ok([variant |-> "Leaf", iter |-> iter]))))

----------------------------------------------------------------------------
(* Key Nodes (key_node.rs).                                                 *)

KEY_NODE_HEADER_SIZE == 76

KN_flags == 2

KN_subkeys_list_offset == 28

KN_key_values_count == 36

KN_key_values_list_offset == 40

KN_key_name_length == 72

KEY_COMP_NAME == 32

\* flags.contains(bit), for a single-bit flag
FlagSet(flags, bit) == (flags \div bit) % 2 = 1

\* KeyNodeItemRange::validate_signature
KeyNode_validate_signature(item_range) ==
    LET signature == DataSlice(item_range.header_range.start, 2)
    IN  IF signature = SigOf("nk") THEN Ok("unit")
        ELSE ErrAt(offset_of_data_offset(item_range.header_range.start),
                   [name |-> "InvalidTwoByteSignature", offset |-> 0,
                    expected |-> "nk", actual |-> signature])

\* KeyNodeItemRange::from_cell_range
from_cell_range(cell_range) ==
    Let(byte_subrange(cell_range, KEY_NODE_HEADER_SIZE), LAMBDA header_range :
        IF ~IsOk(header_range)
        THEN Err([name |-> "InvalidHeaderSize",
                  offset |-> offset_of_data_offset(cell_range.start),
                  expected |-> KEY_NODE_HEADER_SIZE,
                  actual |-> RangeLen(cell_range)])
        ELSE Let([header_range |-> header_range.val,
                  data_range |-> Range(header_range.val.end, cell_range.end)],
                 LAMBDA key_node_item_range :
                 Try(KeyNode_validate_signature(key_node_item_range),
                     LAMBDA unit : Ok(key_node_item_range))))

\* KeyNodeItemRange::from_leaf_item_range
from_leaf_item_range(leaf_item_range) ==
    Try(cell_range_from_data_offset(key_node_offset(leaf_item_range)),
        LAMBDA cell_range : from_cell_range(cell_range))

\* KeyNodeItemRange::name
KeyNode_name(item_range) ==
    Let(item_range.header_range.start, LAMBDA h :
    Let(U16Of(DataSlice(h + KN_key_name_length, 2)), LAMBDA key_name_length :
    Let(byte_subrange(item_range.data_range, key_name_length), LAMBDA key_name_range :
        IF ~IsOk(key_name_range)
        THEN ErrAt(offset_of_data_offset(h + KN_key_name_length),
                   [name |-> "InvalidSizeField", offset |-> 0,
                    expected |-> key_name_length,
                    actual |-> RangeLen(item_range.data_range)])
        ELSE IF FlagSet(U16Of(DataSlice(h + KN_flags, 2)), KEY_COMP_NAME)
        THEN Ok(Latin1(DataSlice(key_name_range.val.start, key_name_length)))
        ELSE Ok(Utf16LE(DataSlice(key_name_range.val.start, key_name_length))))))

\* the boundaries moved the wrong way
leaf_boundaries_swapped(ord, left, mid, right) ==
    IF ord = "Less" THEN [left |-> left, right |-> mid - 1]
    ELSE [left |-> mid + 1, right |-> right]

\* the lower boundary moves to the middle item, not past it
leaf_boundaries_keeping_mid(ord, left, mid, right) ==
    IF ord = "Less" THEN [left |-> mid, right |-> right]
    ELSE [left |-> left, right |-> mid - 1]

\* the new boundaries of the Leaf search after the middle name compared
\* Less or Greater (key_node.rs:207-208)
leaf_boundaries(ord, left, mid, right) ==
    IF ord = "Less" THEN [left |-> mid + 1, right |-> right]
    ELSE [left |-> left, right |-> mid - 1]

\* the Key Node a Leaf item refers to, and its name
leaf_item_name(leaf_item_range) ==
    Try(from_leaf_item_range(leaf_item_range), LAMBDA key_node_item_range :
    Try(KeyNode_name(key_node_item_range), LAMBDA key_node_name :
        Ok([node |-> key_node_item_range, name |-> key_node_name])))

\* the loop of KeyNodeItemRange::binary_search_subkey_in_leaf
RECURSIVE leaf_search_loop(_, _, _, _)
leaf_search_loop(name, leaf_item_ranges, left, right) ==
    IF ~(left <= right) THEN None
    ELSE
    Let((left + right) \div 2, LAMBDA mid :
    Unwrap(LeafItemRanges_nth(leaf_item_ranges, mid), LAMBDA leaf_item_range :
    Try(leaf_item_name(leaf_item_range), LAMBDA key_node :
    Let(partial_cmp(key_node.name, name), LAMBDA ord :
        IF ord = "Equal" THEN Ok(key_node.node)
        ELSE Let(leaf_boundaries(ord, left, mid, right), LAMBDA b :
                 leaf_search_loop(name, leaf_item_ranges, b.left, b.right))))))

\* KeyNodeItemRange::binary_search_subkey_in_leaf
binary_search_subkey_in_leaf(name, leaf_item_ranges) ==
    IF ~(LeafItemRanges_len(leaf_item_ranges) <= 65535) THEN Panic
    ELSE leaf_search_loop(name, leaf_item_ranges, 0, LeafItemRanges_len(leaf_item_ranges) - 1)

\* the search never moves to the upper Index Root items
after_last_probe_no_upper(ord) ==
    IF ord = "Equal" THEN "found" ELSE "leaf"

\* what the Index Root search does after comparing the last name of the
\* middle Leaf with the searched name (key_node.rs:162-175)
after_last_probe(ord) ==
    IF ord = "Equal" THEN "found"
    ELSE IF ord = "Less" THEN "upper"
    ELSE "leaf"

\* the probe of the last name of the middle Leaf, and what follows it
\* (key_node.rs:157-175)
RECURSIVE index_root_search_loop(_, _, _, _)
probe_last(name, index_root_item_ranges, leaf_item_ranges, mid, right) ==
    Unwrap(LeafItemRanges_last(leaf_item_ranges), LAMBDA leaf_item_range :
    Try(leaf_item_name(leaf_item_range), LAMBDA key_node :
    Let(after_last_probe(partial_cmp(key_node.name, name)), LAMBDA d :
        IF d = "found" THEN Ok(key_node.node)
        ELSE IF d = "upper"
        THEN index_root_search_loop(name, index_root_item_ranges, mid + 1, right)
        ELSE binary_search_subkey_in_leaf(name, leaf_item_ranges))))

\* the loop of KeyNodeItemRange::binary_search_subkey_in_index_root
index_root_search_loop(name, index_root_item_ranges, left, right) ==
    IF ~(left <= right) THEN None
    ELSE
    Let((left + right) \div 2, LAMBDA mid :
    Unwrap(IndexRootItemRanges_nth(index_root_item_ranges, mid),
           LAMBDA index_root_item_range :
    Try(from_index_root_item_range(index_root_item_range), LAMBDA leaf_item_ranges :
    Unwrap(LeafItemRanges_nth(leaf_item_ranges, 0), LAMBDA leaf_item_range :
    Try(leaf_item_name(leaf_item_range), LAMBDA key_node :
    Let(partial_cmp(key_node.name, name), LAMBDA ord :
        IF ord = "Equal" THEN Ok(key_node.node)
        ELSE IF ord = "Greater"
        THEN index_root_search_loop(name, index_root_item_ranges, left, mid - 1)
        ELSE probe_last(name, index_root_item_ranges, leaf_item_ranges, mid, right)))))))

\* KeyNodeItemRange::binary_search_subkey_in_index_root
binary_search_subkey_in_index_root(name, index_root_item_ranges) ==
    IF ~(IndexRootItemRanges_len(index_root_item_ranges) <= 65535) THEN Panic
    ELSE index_root_search_loop(name, index_root_item_ranges, 0,
                                IndexRootItemRanges_len(index_root_item_ranges) - 1)

\* KeyNodeItemRange::subkeys_cell_range
subkeys_cell_range(item_range) ==
    LET offset == DataSlice(item_range.header_range.start + KN_subkeys_list_offset, 4)
    IN  IF offset = SentinelBytes THEN None
        ELSE cell_range_from_data_offset(offset)

\* KeyNodeItemRange::subkey
subkey(item_range, name) ==
    Try(subkeys_cell_range(item_range), LAMBDA cell_range :
    Try(SubKeyNodes_new(cell_range), LAMBDA subkeys :
        IF subkeys.variant = "IndexRoot"
        THEN binary_search_subkey_in_index_root(name, subkeys.iter)
        ELSE binary_search_subkey_in_leaf(name, subkeys.iter)))

Backslash == 92

\* str::split('\\'): the components between the backslashes, empty ones
\* included
RECURSIVE SplitFrom(_, _)
SplitFrom(path, cur) ==
    IF path = << >> THEN << cur >>
    ELSE IF path[1] = Backslash THEN << cur >> \o SplitFrom(Tail(path), << >>)
    ELSE SplitFrom(Tail(path), Append(cur, path[1]))

split(path) == SplitFrom(path, << >>)

\* empty components are looked up like any other
looks_up_always(component) == TRUE

\* whether the loop of subpath looks a component up (key_node.rs:298)
looks_up(component) == component # << >>

RECURSIVE subpath_loop(_, _)
subpath_loop(key_node_item_range, components) ==
    IF components = << >> THEN Ok(key_node_item_range)
    ELSE IF ~looks_up(Head(components))
    THEN subpath_loop(key_node_item_range, Tail(components))
    ELSE Try(subkey(key_node_item_range, Head(components)),
             LAMBDA found : subpath_loop(found, Tail(components)))

\* KeyNodeItemRange::subpath
subpath(item_range, path) == subpath_loop(item_range, split(path))

----------------------------------------------------------------------------
(* Key Values (key_values_list.rs, key_value.rs).                           *)

KEY_VALUE_HEADER_SIZE == 20

KV_name_length == 2

KV_flags == 16

VALUE_COMP_NAME == 1

KEY_VALUES_LIST_ITEM_SIZE == 4

\* KeyValuesListItemRanges::new
KeyValuesListItemRanges_new(count, count_field_offset, cell_range) ==
    Let(count * KEY_VALUES_LIST_ITEM_SIZE, LAMBDA byte_count :
    Let(byte_subrange(cell_range, byte_count), LAMBDA items_range :
        IF ~IsOk(items_range)
        THEN ErrAt(count_field_offset,
                   [name |-> "InvalidSizeField", offset |-> 0,
                    expected |-> byte_count, actual |-> RangeLen(cell_range)])
        ELSE Ok([items_range |-> items_range.val])))

\* KeyValue::validate_signature
KeyValue_validate_signature(key_value) ==
    LET signature == DataSlice(key_value.header_range.start, 2)
    IN  IF signature = SigOf("vk") THEN Ok("unit")
        ELSE ErrAt(offset_of_data_offset(key_value.header_range.start),
                   [name |-> "InvalidTwoByteSignature", offset |-> 0,
                    expected |-> "vk", actual |-> signature])

\* KeyValue::new
KeyValue_new(cell_range) ==
    Let(byte_subrange(cell_range, KEY_VALUE_HEADER_SIZE), LAMBDA header_range :
        IF ~IsOk(header_range)
        THEN Err([name |-> "InvalidHeaderSize",
                  offset |-> offset_of_data_offset(cell_range.start),
                  expected |-> KEY_VALUE_HEADER_SIZE,
                  actual |-> RangeLen(cell_range)])
        ELSE Let([header_range |-> header_range.val,
                  data_range |-> Range(header_range.val.end, cell_range.end)],
                 LAMBDA key_value :
                 Try(KeyValue_validate_signature(key_value), LAMBDA unit : Ok(key_value))))

\* KeyValue::name
KeyValue_name(key_value) ==
    Let(key_value.header_range.start, LAMBDA h :
    Let(U16Of(DataSlice(h + KV_name_length, 2)), LAMBDA name_length :
    Let(byte_subrange(key_value.data_range, name_length), LAMBDA name_range :
        IF ~IsOk(name_range)
        THEN ErrAt(offset_of_data_offset(h + KV_name_length),
                   [name |-> "InvalidSizeField", offset |-> 0,
                    expected |-> name_length,
                    actual |-> RangeLen(key_value.data_range)])
        ELSE IF FlagSet(U16Of(DataSlice(h + KV_flags, 2)), VALUE_COMP_NAME)
        THEN Ok(Latin1(DataSlice(name_range.val.start, name_length)))
        ELSE Ok(Utf16LE(DataSlice(name_range.val.start, name_length))))))

\* KeyNodeItemRange::values: the iterator over the values list, or none
values(item_range) ==
    Let(item_range.header_range.start, LAMBDA h :
        IF DataSlice(h + KN_key_values_list_offset, 4) = SentinelBytes THEN None
        ELSE Try(cell_range_from_data_offset(DataSlice(h + KN_key_values_list_offset, 4)),
                 LAMBDA cell_range :
                 KeyValuesListItemRanges_new(
                    U32Of(DataSlice(h + KN_key_values_count, 4)),
                    offset_of_data_offset(h + KN_key_values_count),
                    cell_range)))

\* KeyValues::next: the Key Value the first item of the iterator refers to
\* (the iterator is not empty)
KeyValues_next(it) ==
    Try(cell_range_from_data_offset(DataSlice(it.items_range.start, 4)),
        LAMBDA cell_range : KeyValue_new(cell_range))

\* the iterator after next
KeyValues_rest(it) ==
    [items_range |-> Range(it.items_range.start + KEY_VALUES_LIST_ITEM_SIZE,
                           it.items_range.end)]

\* the predicate of the find in KeyNodeItemRange::value (key_node.rs:336-347)
value_predicate(item, name) ==
    IF item.kind = "Err" THEN TRUE
    ELSE Let(KeyValue_name(item.val), LAMBDA key_value_name :
             IF key_value_name.kind = "Err" THEN TRUE
             ELSE NameEq(key_value_name.val, name))

\* Iterator::find over KeyValues
RECURSIVE find(_, _)
find(it, name) ==
    IF ~IsOk(byte_subrange(it.items_range, KEY_VALUES_LIST_ITEM_SIZE)) THEN None
    ELSE Let(KeyValues_next(it), LAMBDA item :
             IF item.kind = "Panic" THEN Panic
             ELSE IF value_predicate(item, name) THEN item
             ELSE find(KeyValues_rest(it), name))

\* KeyNodeItemRange::value
value(item_range, name) == Try(values(item_range), LAMBDA it : find(it, name))

\* Hive::root_key_node
root_key_node ==
    Try(cell_range_from_data_offset(BBField(OFF_root_cell_offset)),
        LAMBDA cell_range : from_cell_range(cell_range))

----------------------------------------------------------------------------
(* The data of a Key Value (key_value.rs, big_data.rs).                     *)

KV_data_size == 4

KV_data_offset == 8

KV_data_type == 12

\* KeyValueDataType (key_value.rs:68-81)
RegSZ == 1

RegExpandSZ == 2

RegDWord == 4

RegDWordBigEndian == 5

RegMultiSZ == 7

RegQWord == 11

BIG_DATA_SEGMENT_SIZE == 16344

BIG_DATA_HEADER_SIZE == 8

BD_segment_count == 2

BD_segment_list_offset == 4

BIG_DATA_LIST_ITEM_SIZE == 4

\* usize::MAX, written as its two's-complement reading: the one argument of
\* nth the model takes beyond the small ones
USIZE_MAX == 0 - 1

\* usize::checked_mul(n, k) for k > 1: the product of usize::MAX overflows on
\* every width of usize, the products of the small arguments never do
checked_mul(n, k) == IF n = USIZE_MAX THEN None ELSE Ok(n * k)

\* usize::saturating_sub
saturating_sub(a, b) == IF a > b THEN a - b ELSE 0

whole_segment(a, b) == b

\* cmp::min
Min(a, b) == IF a < b THEN a ELSE b

\* KeyValueData::Small(&hive.data[range]) and KeyValueData::Big(iter)
Small(range) == [variant |-> "Small", range |-> range]

Big(iter) == [variant |-> "Big", iter |-> iter]

\* BigDataListItemRanges::validate_signature
BigData_validate_signature(header_range) ==
    LET signature == DataSlice(header_range.start, 2)
    IN  IF signature = SigOf("db") THEN Ok("unit")
        ELSE ErrAt(offset_of_data_offset(header_range.start),
                   [name |-> "InvalidTwoByteSignature", offset |-> 0,
                    expected |-> "db", actual |-> signature])

\* BigDataListItemRanges::new
BigDataListItemRanges_new(data_size, data_size_field_offset, header_cell_range) ==
    Let(byte_subrange(header_cell_range, BIG_DATA_HEADER_SIZE), LAMBDA header_range :
        IF ~IsOk(header_range)
        THEN Err([name |-> "InvalidHeaderSize",
                  offset |-> offset_of_data_offset(header_cell_range.start),
                  expected |-> BIG_DATA_HEADER_SIZE,
                  actual |-> RangeLen(header_cell_range)])
        ELSE
        Try(BigData_validate_signature(header_range.val), LAMBDA unit :
        Let(U16Of(DataSlice(header_range.val.start + BD_segment_count, 2)),
            LAMBDA segment_count :
        Let(segment_count * BIG_DATA_SEGMENT_SIZE, LAMBDA max_data_size :
            IF data_size > max_data_size
            THEN Err([name |-> "InvalidSizeField", offset |-> data_size_field_offset,
                      expected |-> max_data_size, actual |-> data_size])
            ELSE
            Try(cell_range_from_data_offset(
                    DataSlice(header_range.val.start + BD_segment_list_offset, 4)),
                LAMBDA segment_list_cell_range :
            Let(segment_count * BIG_DATA_LIST_ITEM_SIZE, LAMBDA byte_count :
            Let(byte_subrange(segment_list_cell_range, byte_count), LAMBDA items_range :
                IF ~IsOk(items_range)
                THEN ErrAt(offset_of_data_offset(header_range.val.start + BD_segment_count),
                           [name |-> "InvalidSizeField", offset |-> 0,
                            expected |-> byte_count,
                            actual |-> RangeLen(segment_list_cell_range)])
                ELSE Ok([items_range |-> items_range.val]))))))))

\* BigDataListItemRanges::size_hint
BigDataListItemRanges_size_hint(it) == RangeLen(it.items_range) \div BIG_DATA_LIST_ITEM_SIZE

\* BigDataSlices::new
BigDataSlices_new(data_size, data_size_field_offset, header_cell_range) ==
    Try(BigDataListItemRanges_new(data_size, data_size_field_offset, header_cell_range),
        LAMBDA big_data_list_item_ranges :
        Ok([big_data_list_item_ranges |-> big_data_list_item_ranges,
            bytes_left |-> data_size]))

\* what a call on an iterator leaves: the iterator after it, the item returned
Step(iter, item) == [iter |-> iter, item |-> item]

\* BigDataSlices::next.  The item is none, Ok of the byte range of the slice,
\* or an error.
BigDataSlices_next(self) ==
    Let(Min(self.bytes_left, BIG_DATA_SEGMENT_SIZE), LAMBDA bytes_to_return :
        IF bytes_to_return = 0 THEN Step(self, None)
        ELSE
        Let(byte_subrange(self.big_data_list_item_ranges.items_range,
                          BIG_DATA_LIST_ITEM_SIZE), LAMBDA big_data_list_item_range :
            IF ~IsOk(big_data_list_item_range) THEN Step(self, None)
            ELSE
            Let([big_data_list_item_ranges |->
                    [items_range |->
                        Range(self.big_data_list_item_ranges.items_range.start
                                + BIG_DATA_LIST_ITEM_SIZE,
                              self.big_data_list_item_ranges.items_range.end)],
                 bytes_left |-> self.bytes_left - bytes_to_return], LAMBDA after :
            Step(after,
                 Try(cell_range_from_data_offset(
                        DataSlice(big_data_list_item_range.val.start, 4)),
                     LAMBDA cell_range :
                 Let(byte_subrange(cell_range, bytes_to_return), LAMBDA data_range :
                     IF ~IsOk(data_range)
                     THEN Err([name |-> "InvalidDataSize",
                               offset |-> offset_of_data_offset(cell_range.start),
                               expected |-> bytes_to_return,
                               actual |-> RangeLen(cell_range)])
                     ELSE Ok(data_range.val)))))))

\* BigDataSlices::nth
BigDataSlices_nth(self, n) ==
    Let(checked_mul(n, BIG_DATA_SEGMENT_SIZE), LAMBDA bytes_to_skip :
        IF ~IsOk(bytes_to_skip) THEN Step(self, None)
        ELSE
        Let([self EXCEPT !.bytes_left = saturating_sub(self.bytes_left, bytes_to_skip.val)],
            LAMBDA skipped :
            IF skipped.bytes_left = 0 THEN Step(skipped, None)
            ELSE BigDataSlices_next(
                    [skipped EXCEPT !.big_data_list_item_ranges.items_range.start =
                                        @ + n * BIG_DATA_LIST_ITEM_SIZE])))

\* BigDataSlices::size_hint
BigDataSlices_size_hint(self) ==
    BigDataListItemRanges_size_hint(self.big_data_list_item_ranges)

\* BigDataSlices::count
BigDataSlices_count(self) ==
    BigDataListItemRanges_size_hint(self.big_data_list_item_ranges)

\* BigDataSlices::last
BigDataSlices_last(self) ==
    IF BigDataSlices_size_hint(self) = 0 THEN None
    ELSE BigDataSlices_nth(self, BigDataSlices_size_hint(self) - 1).item

\* the data size without the bit that marks data stored in the data-offset
\* field (DATA_STORED_IN_DATA_OFFSET, the top bit)
KeyValue_data_size(key_value) ==
    Let(DataSlice(key_value.header_range.start + KV_data_size, 4), LAMBDA raw :
        U32Of(<< raw[1], raw[2], raw[3], raw[4] % 128 >>))

\* data_size & DATA_STORED_IN_DATA_OFFSET > 0
data_stored_in_data_offset(key_value) ==
    DataByte(key_value.header_range.start + KV_data_size + 3) >= 128

\* KeyValue::data
KeyValue_data(key_value) ==
    Let(key_value.header_range.start, LAMBDA h :
    Let(KeyValue_data_size(key_value), LAMBDA data_size :
        IF data_stored_in_data_offset(key_value)
        THEN IF data_size > 4
             THEN ErrAt(offset_of_data_offset(h + KV_data_size),
                        [name |-> "InvalidSizeField", offset |-> 0,
                         expected |-> 4, actual |-> data_size])
             ELSE Ok(Small(Range(h + KV_data_offset, h + KV_data_offset + data_size)))
        ELSE IF data_size <= BIG_DATA_SEGMENT_SIZE
        THEN Try(cell_range_from_data_offset(DataSlice(h + KV_data_offset, 4)),
                 LAMBDA cell_range :
                 IF RangeLen(cell_range) < data_size
                 THEN Err([name |-> "InvalidDataSize",
                           offset |-> offset_of_data_offset(cell_range.start),
                           expected |-> data_size,
                           actual |-> RangeLen(cell_range)])
                 ELSE Ok(Small(Range(cell_range.start, cell_range.start + data_size))))
        ELSE Try(cell_range_from_data_offset(DataSlice(h + KV_data_offset, 4)),
                 LAMBDA cell_range :
             Try(offset_of_field(offset_of_data_offset(h + KV_data_size)),
                 LAMBDA data_size_field_offset :
             Try(BigDataSlices_new(data_size, data_size_field_offset, cell_range),
                 LAMBDA iter : Ok(Big(iter)))))))

\* KeyValue::data_type: the code of a known data type (KeyValueDataType::n)
KeyValue_data_type(key_value) ==
    Let(DataSlice(key_value.header_range.start + KV_data_type, 4),
        LAMBDA data_type_code :
        IF data_type_code[2] = 0 /\ data_type_code[3] = 0 /\ data_type_code[4] = 0
           /\ data_type_code[1] <= RegQWord
        THEN Ok(data_type_code[1])
        ELSE ErrAt(offset_of_data_offset(key_value.header_range.start + KV_data_type),
                   [name |-> "UnsupportedKeyValueDataType", offset |-> 0,
                    actual |-> data_type_code]))

\* char::REPLACEMENT_CHARACTER
REPLACEMENT_CHARACTER == 65533

\* the number of chunks of chunks_exact(2) over a slice, and chunk k (0-based)
\* read by u16::from_le_bytes
Units(range) == RangeLen(range) \div 2

Unit(range, k) == U16Of(DataSlice(range.start + 2 * k, 2))

\* what char::decode_utf16(..).map(unwrap_or(REPLACEMENT_CHARACTER)) yields
\* at chunk k of a slice: the character, and the chunks it is made of
DecodedAt(range, k) ==
    Let(Unit(range, k), LAMBDA u :
        IF IsHighSurrogate(u) /\ k + 1 < Units(range) /\ IsLowSurrogate(Unit(range, k + 1))
        THEN [c |-> 65536 + (u - 55296) * 1024 + (Unit(range, k + 1) - 56320), units |-> 2]
        ELSE IF IsHighSurrogate(u) \/ IsLowSurrogate(u)
        THEN [c |-> REPLACEMENT_CHARACTER, units |-> 1]
        ELSE [c |-> u, units |-> 1])

\* iter::once(Ok(data))
Once(range) == [variant |-> "Small", range |-> range, taken |-> FALSE]

\* Iterator::next of the iterator handed to the string decoders
Slices_next(iter) ==
    IF iter.variant = "Small"
    THEN IF iter.taken THEN Step(iter, None)
         ELSE Step([iter EXCEPT !.taken = TRUE], Ok(iter.range))
    ELSE Let(BigDataSlices_next(iter.iter), LAMBDA step : Step(Big(step.iter), step.item))

\* KeyValue::utf16le_to_string_lossy: `for slice_data in iter` with the
\* string so far, and inside it `for c in char_iter` from chunk k on
RECURSIVE utf16le_to_string_lossy(_, _)
RECURSIVE string_chars(_, _, _, _)
utf16le_to_string_lossy(iter, string) ==
    Let(Slices_next(iter), LAMBDA step :
        IF step.item.kind = "None" THEN Ok(string)
        ELSE Try(step.item, LAMBDA slice_data :
                 string_chars(step.iter, slice_data, 0, string)))

string_chars(iter, slice_data, k, string) ==
    IF k >= Units(slice_data) THEN utf16le_to_string_lossy(iter, string)
    ELSE Let(DecodedAt(slice_data, k), LAMBDA d :
             IF d.c = 0 THEN Ok(string)
             ELSE string_chars(iter, slice_data, k + d.units, Append(string, d.c)))

\* the error of a decoder called on a value of another data type
InvalidKeyValueDataType(expected, actual) ==
    Err([name |-> "InvalidKeyValueDataType", expected |-> expected, actual |-> actual])

\* the iterator a decoder makes of what data() returned
SlicesOf(key_value_data) ==
    IF key_value_data.variant = "Small" THEN Once(key_value_data.range)
    ELSE key_value_data

\* KeyValue::string_data
string_data(key_value) ==
    Try(KeyValue_data_type(key_value), LAMBDA data_type :
        IF data_type \notin {RegSZ, RegExpandSZ}
        THEN InvalidKeyValueDataType({RegSZ, RegExpandSZ}, data_type)
        ELSE Try(KeyValue_data(key_value), LAMBDA key_value_data :
                 utf16le_to_string_lossy(SlicesOf(key_value_data), << >>)))

\* KeyValue::multi_utf16le_to_string_lossy, as utf16le_to_string_lossy
RECURSIVE multi_utf16le_to_string_lossy(_, _, _)
RECURSIVE multi_string_chars(_, _, _, _, _)
multi_utf16le_to_string_lossy(iter, strings, string) ==
    Let(Slices_next(iter), LAMBDA step :
        IF step.item.kind = "None" THEN Ok(strings)
        ELSE Try(step.item, LAMBDA slice_data :
                 multi_string_chars(step.iter, slice_data, 0, strings, string)))

multi_string_chars(iter, slice_data, k, strings, string) ==
    IF k >= Units(slice_data) THEN multi_utf16le_to_string_lossy(iter, strings, string)
    ELSE Let(DecodedAt(slice_data, k), LAMBDA d :
             IF d.c = 0
             THEN IF string = << >> THEN Ok(strings)
                  ELSE multi_string_chars(iter, slice_data, k + d.units,
                                          Append(strings, string), << >>)
             ELSE multi_string_chars(iter, slice_data, k + d.units,
                                     strings, Append(string, d.c)))

\* KeyValue::multi_string_data
multi_string_data(key_value) ==
    Try(KeyValue_data_type(key_value), LAMBDA data_type :
        IF data_type # RegMultiSZ
        THEN InvalidKeyValueDataType({RegMultiSZ}, data_type)
        ELSE Try(KeyValue_data(key_value), LAMBDA key_value_data :
                 multi_utf16le_to_string_lossy(SlicesOf(key_value_data), << >>, << >>)))

\* LittleEndian::read_u32 and BigEndian::read_u32, for values below 2^31
read_u32_le(bytes) == U32Of(bytes)

read_u32_be(bytes) == U32Of(<< bytes[4], bytes[3], bytes[2], bytes[1] >>)

\* LittleEndian::read_u64, as its two 32-bit halves (each below 2^31)
read_u64_le(bytes) ==
    [lo |-> U32Of(SubSeq(bytes, 1, 4)), hi |-> U32Of(SubSeq(bytes, 5, 8))]

\* hive.offset_of_field(&data) in dword_data and qword_data: `data` is the
\* local variable holding the slice, so the address compared with the
\* buffer's is one of the stack.  Where the stack lies relative to the buffer
\* is up to the build and the caller: the assertion fails when it lies below.
offset_of_local(local_above_buffer, e) ==
    IF local_above_buffer THEN Err([e EXCEPT !.offset = "distance of a local variable"])
    ELSE Panic

\* the error of dword_data and qword_data for data stored as Big Data
big_data_size_error(key_value, expected) ==
    Err([name |-> "InvalidDataSize",
         offset |-> offset_of_data_offset(
                       U32Of(DataSlice(key_value.header_range.start + KV_data_offset, 4))),
         expected |-> expected,
         actual |-> KeyValue_data_size(key_value)])

\* KeyValue::dword_data
dword_data(key_value, local_above_buffer) ==
    Try(KeyValue_data(key_value), LAMBDA key_value_data :
        IF key_value_data.variant = "Small"
        THEN IF RangeLen(key_value_data.range) # 4
             THEN offset_of_local(local_above_buffer,
                                  [name |-> "InvalidDataSize", offset |-> 0,
                                   expected |-> 4,
                                   actual |-> RangeLen(key_value_data.range)])
             ELSE Try(KeyValue_data_type(key_value), LAMBDA data_type :
                      IF data_type = RegDWord
                      THEN Ok(read_u32_le(DataSlice(key_value_data.range.start, 4)))
                      ELSE IF data_type = RegDWordBigEndian
                      THEN Ok(read_u32_be(DataSlice(key_value_data.range.start, 4)))
                      ELSE InvalidKeyValueDataType({RegDWord, RegDWordBigEndian}, data_type))
        ELSE big_data_size_error(key_value, 4))

\* KeyValue::qword_data
qword_data(key_value, local_above_buffer) ==
    Try(KeyValue_data(key_value), LAMBDA key_value_data :
        IF key_value_data.variant = "Small"
        THEN IF RangeLen(key_value_data.range) # 8
             THEN offset_of_local(local_above_buffer,
                                  [name |-> "InvalidDataSize", offset |-> 0,
                                   expected |-> 8,
                                   actual |-> RangeLen(key_value_data.range)])
             ELSE Try(KeyValue_data_type(key_value), LAMBDA data_type :
                      IF data_type = RegQWord
                      THEN Ok(read_u64_le(DataSlice(key_value_data.range.start, 8)))
                      ELSE InvalidKeyValueDataType({RegQWord}, data_type))
        ELSE big_data_size_error(key_value, 8))

----------------------------------------------------------------------------
(* The clearing of the volatile subkey counts (hive.rs, key_node.rs,        *)
(* leaf.rs).  The write path reads the buffer as the read path does, and    *)
(* reads it as it is when it reads: after the writes made so far.           *)

KN_volatile_subkey_count == 24

\* the cell area with the bytes b stored from byte `off` on
WriteBytes(off, b) ==
    [data EXCEPT !.bytes =
        [i \in 1..(IF off + Len(b) > Len(data.bytes) THEN off + Len(b)
                   ELSE Len(data.bytes)) |->
            IF i > off /\ i <= off + Len(b) THEN b[i - off] ELSE DataByte(i - 1)]]

\* a write to another field of the header: the number of subkeys
set_subkey_count(item_range, count) ==
    WriteBytes(item_range.header_range.start + KN_volatile_subkey_count - 4, LE32(count))

\* no write at all
keep_volatile_subkey_count(item_range, count) == data

\* header_mut(..).volatile_subkey_count.set(count): the cell area afterwards
set_volatile_subkey_count(item_range, count) ==
    WriteBytes(item_range.header_range.start + KN_volatile_subkey_count, LE32(count))

\* the last item range of a Leaf, and the iterator without it
LeafItemRanges_next_back(it) ==
    IF RangeLen(it.items_range) < item_size(it.leaf_type)
    THEN [item |-> None, iter |-> it]
    ELSE [item |-> Ok(Range(it.items_range.end - item_size(it.leaf_type),
                            it.items_range.end)),
          iter |-> [it EXCEPT !.items_range.end = @ - item_size(it.leaf_type)]]

\* LeafItemRanges::next: the first item range, and the iterator afterwards
LeafItemRanges_next(it) ==
    Let(byte_subrange(it.items_range, item_size(it.leaf_type)), LAMBDA item_range :
        IF ~IsOk(item_range) THEN [item |-> None, iter |-> it]
        ELSE [item |-> item_range,
              iter |-> [it EXCEPT !.items_range.start = @ + item_size(it.leaf_type)]])

\* IndexRootItemRanges::next
IndexRootItemRanges_next(it) ==
    Let(byte_subrange(it.items_range, INDEX_ROOT_ITEM_SIZE), LAMBDA item_range :
        IF ~IsOk(item_range) THEN [item |-> None, iter |-> it]
        ELSE [item |-> item_range,
              iter |-> [it EXCEPT !.items_range.start = @ + INDEX_ROOT_ITEM_SIZE]])

\* LeafKeyNodesMut::next: the Key Node of the next item
LeafKeyNodesMut_next(self) ==
    Let(LeafItemRanges_next(self.leaf_item_ranges), LAMBDA n :
        IF ~IsOk(n.item) THEN [item |-> None, iter |-> self]
        ELSE [item |-> from_leaf_item_range(n.item.val),
              iter |-> [self EXCEPT !.leaf_item_ranges = n.iter]])

\* IndexRootKeyNodesMut::next: the next Key Node of the Leaf at hand or,
\* when there is none, of the Leaf of the next Index Root item
RECURSIVE IndexRootKeyNodesMut_next(_)
IndexRootKeyNodesMut_next(self) ==
    IF IsOk(self.leaf_item_ranges)
       /\ IsOk(LeafItemRanges_next(self.leaf_item_ranges.val).item)
    THEN Let(LeafItemRanges_next(self.leaf_item_ranges.val), LAMBDA n :
             [item |-> from_leaf_item_range(n.item.val),
              iter |-> [self EXCEPT !.leaf_item_ranges = Ok(n.iter)]])
    ELSE Let(IndexRootItemRanges_next(self.index_root_item_ranges), LAMBDA r :
             IF ~IsOk(r.item) THEN [item |-> None, iter |-> self]
             ELSE Let(from_index_root_item_range(r.item.val), LAMBDA leaf_item_ranges :
                      IF ~IsOk(leaf_item_ranges)
                      THEN [item |-> leaf_item_ranges,
                            iter |-> [self EXCEPT !.index_root_item_ranges = r.iter]]
                      ELSE IndexRootKeyNodesMut_next(
                               [variant |-> "IndexRoot",
                                index_root_item_ranges |-> r.iter,
                                leaf_item_ranges |-> leaf_item_ranges])))

\* SubKeyNodesMut::new
SubKeyNodesMut_new(cell_range) ==
    Try(SubKeyNodes_new(cell_range), LAMBDA subkeys :
        IF subkeys.variant = "IndexRoot"
        THEN Ok([variant |-> "IndexRoot",
                 index_root_item_ranges |-> subkeys.iter,
                 leaf_item_ranges |-> None])
        ELSE Ok([variant |-> "Leaf", leaf_item_ranges |-> subkeys.iter]))

\* SubKeyNodesMut::next
SubKeyNodesMut_next(self) ==
    IF self.variant = "IndexRoot" THEN IndexRootKeyNodesMut_next(self)
    ELSE LeafKeyNodesMut_next(self)

\* KeyNode::subkeys_mut: none for a Key Node without a subkeys list
subkeys_mut(item_range) ==
    Try(subkeys_cell_range(item_range), LAMBDA cell_range : SubKeyNodesMut_new(cell_range))

\* Hive::root_key_node_mut
root_key_node_mut ==
    Try(cell_range_from_data_offset(BBField(OFF_root_cell_offset)),
        LAMBDA cell_range : from_cell_range(cell_range))

----------------------------------------------------------------------------
(* The iterators over subkeys and values (key_node.rs, leaf.rs,             *)
(* key_values_list.rs).  A call of next is given as the item it returns and *)
(* the iterator it leaves.                                                  *)

\* KeyNode::subkeys: none for a Key Node without a subkeys list
KeyNode_subkeys(item_range) ==
    Try(subkeys_cell_range(item_range), LAMBDA cell_range : SubKeyNodesMut_new(cell_range))

\* LeafKeyNodes::next
LeafKeyNodes_next(self) ==
    Let(LeafItemRanges_next(self.leaf_item_ranges), LAMBDA n :
        IF ~IsOk(n.item) THEN [item |-> None, iter |-> self]
        ELSE [item |-> from_leaf_item_range(n.item.val),
              iter |-> [self EXCEPT !.leaf_item_ranges = n.iter]])

\* SubKeyNodes::next
SubKeyNodes_next(self) ==
    IF self.variant = "IndexRoot" THEN IndexRootKeyNodesMut_next(self)
    ELSE LeafKeyNodes_next(self)

\* KeyValuesListItemRanges::next
KeyValuesListItemRanges_next(it) ==
    Let(byte_subrange(it.items_range, KEY_VALUES_LIST_ITEM_SIZE), LAMBDA item_range :
        IF ~IsOk(item_range) THEN [item |-> None, iter |-> it]
        ELSE [item |-> item_range,
              iter |-> [it EXCEPT !.items_range.start = @ + KEY_VALUES_LIST_ITEM_SIZE]])

\* KeyValues::next, on an iterator that may be empty
KeyValues_Iterator_next(self) ==
    Let(KeyValuesListItemRanges_next(self), LAMBDA n :
        IF ~IsOk(n.item) THEN [item |-> None, iter |-> self]
        ELSE [item |-> Try(cell_range_from_data_offset(DataSlice(n.item.val.start, 4)),
                           LAMBDA cell_range : KeyValue_new(cell_range)),
              iter |-> n.iter])

----------------------------------------------------------------------------
(* The iterators of SubkeysList::iter (subkeys_list.rs, hash_leaf.rs,       *)
(* index_leaf.rs, index_root.rs).  A Leaf iterator is the range of the      *)
(* elements not yet visited.                                                *)

\* size_of::<HashLeafElement>() (and of a Fast Leaf element),
\* size_of::<IndexLeafElement>()
ElementSize(kind) == IF kind = "IndexLeaf" THEN 4 ELSE 8

\* HashLeafElement::elements_range, IndexLeafElement::elements_range,
\* IndexRootElement::elements_range
elements_range(size, count, count_field_offset, data_range) ==
    Let(Range(data_range.start, data_range.start + count * size), LAMBDA range :
        IF range.end > data_range.end
        THEN ErrAt(count_field_offset,
                   [name |-> "InvalidSizeField", offset |-> 0,
                    expected |-> RangeLen(range), actual |-> RangeLen(data_range)])
        ELSE Ok(range))

\* HashLeafElement::next_key_node_offset, IndexLeafElement::next_key_node_offset:
\* the stored offset of the first element, and the range moved behind it
next_key_node_offset(size, range) ==
    IF range.start + size > range.end THEN [offset |-> None, elements_range |-> range]
    ELSE [offset |-> Ok(DataSlice(range.start, 4)),
          elements_range |-> Range(range.start + size, range.end)]

\* HashLeafIter::new, IndexLeafIter::new
HashLeafIter_new(kind, count, count_field_offset, data_range) ==
    Try(elements_range(ElementSize(kind), count, count_field_offset, data_range),
        LAMBDA range : Ok([kind |-> kind, elements_range |-> range]))

\* the range after the Key Node of an element has been made: a Hash Leaf and
\* an Index Leaf iterator add the size of an element once more
after_key_node(kind, range) ==
    IF kind = "FastLeaf" THEN range
    ELSE Range(range.start + ElementSize(kind), range.end)

\* HashLeafIter::next and IndexLeafIter::next (HashLeafIterMut::next and
\* IndexLeafIterMut::next are the same code)
HashLeafIter_next(self) ==
    Let(next_key_node_offset(ElementSize(self.kind), self.elements_range), LAMBDA n :
        IF ~IsOk(n.offset) THEN [item |-> None, iter |-> self]
        ELSE Let(Try(cell_range_from_data_offset(n.offset.val),
                     LAMBDA cell_range : from_cell_range(cell_range)),
                 LAMBDA key_node :
                 IF ~IsOk(key_node)
                 THEN [item |-> key_node,
                       iter |-> [self EXCEPT !.elements_range = n.elements_range]]
                 ELSE [item |-> key_node,
                       iter |-> [self EXCEPT !.elements_range =
                                    after_key_node(self.kind, n.elements_range)]]))

\* HashLeafIter::size_hint, IndexLeafIter::size_hint
HashLeafIter_size_hint(self) == RangeLen(self.elements_range) \div ElementSize(self.kind)

\* the iterator over a Leaf with the signature
LeafIterKind(signature) ==
    IF signature = SigOf("lf") THEN "FastLeaf"
    ELSE IF signature = SigOf("lh") THEN "HashLeaf"
    ELSE "IndexLeaf"

\* IndexRootIter::new
IndexRootIter_new(count, count_field_offset, data_range) ==
    Try(elements_range(INDEX_ROOT_ITEM_SIZE, count, count_field_offset, data_range),
        LAMBDA range : Ok([kind |-> "IndexRoot", elements_range |-> range,
                           inner_iter |-> None]))

\* IndexRootIter::next
RECURSIVE IndexRootIter_next(_)
IndexRootIter_next(self) ==
    IF IsOk(self.inner_iter) /\ HashLeafIter_next(self.inner_iter.val).item # None
    THEN Let(HashLeafIter_next(self.inner_iter.val), LAMBDA n :
             [item |-> n.item, iter |-> [self EXCEPT !.inner_iter = Ok(n.iter)]])
    ELSE Let(next_key_node_offset(INDEX_ROOT_ITEM_SIZE, self.elements_range), LAMBDA e :
         Let([self EXCEPT !.elements_range = e.elements_range], LAMBDA advanced :
             IF ~IsOk(e.offset) THEN [item |-> None, iter |-> self]
             ELSE Let(Try(cell_range_from_data_offset(e.offset.val), LAMBDA cell_range :
                          SubkeysList_new_internal(cell_range, FALSE)),
                      LAMBDA subkeys_list :
                      IF ~IsOk(subkeys_list) THEN [item |-> subkeys_list, iter |-> advanced]
                      ELSE Let(DataSlice(subkeys_list.val.header_range.start, 2),
                               LAMBDA signature :
                           IF signature \notin {SigOf("lf"), SigOf("lh"), SigOf("li")}
                           THEN [item |-> Panic, iter |-> advanced]
                           ELSE Let(HashLeafIter_new(
                                        LeafIterKind(signature),
                                        SubkeysList_count(subkeys_list.val),
                                        SubkeysList_count_field_offset(subkeys_list.val),
                                        subkeys_list.val.data_range),
                                    LAMBDA inner :
                                    IF ~IsOk(inner) THEN [item |-> inner, iter |-> advanced]
                                    ELSE IndexRootIter_next(
                                             [advanced EXCEPT !.inner_iter = inner]))))))

\* SubkeysList::iter
SubkeysList_iter(subkeys_list) ==
    Let(DataSlice(subkeys_list.header_range.start, 2), LAMBDA signature :
        IF signature = SigOf("ri")
        THEN IndexRootIter_new(SubkeysList_count(subkeys_list),
                               SubkeysList_count_field_offset(subkeys_list),
                               subkeys_list.data_range)
        ELSE IF signature \in {SigOf("lf"), SigOf("lh"), SigOf("li")}
        THEN HashLeafIter_new(LeafIterKind(signature), SubkeysList_count(subkeys_list),
                              SubkeysList_count_field_offset(subkeys_list),
                              subkeys_list.data_range)
        ELSE Panic)

\* SubkeyIter::next
SubkeyIter_next(self) ==
    IF self.kind = "IndexRoot" THEN IndexRootIter_next(self) ELSE HashLeafIter_next(self)

----------------------------------------------------------------------------
(* Hive images.  A hive is written down as a list of cells; a cell refers   *)
(* to another one by its index in the list (0: the sentinel 0xFFFFFFFF).    *)
(* The cells are laid out one after the other behind a bin header of        *)
(* FirstCellOffset bytes,                                                   *)
(* each with its size field and padded to a multiple of 8 bytes.            *)

FirstCellOffset == 32

Nk(name, comp, subkeys, vals, vals_count) ==
    [t |-> "nk", name |-> name, comp |-> comp, subkeys |-> subkeys,
     vals |-> vals, vals_count |-> vals_count]

SubkeysListCell(sig, count, items) ==
    [t |-> "list", sig |-> sig, count |-> count, items |-> items]

ValuesListCell(items) == [t |-> "vlist", items |-> items]

\* a Key Value header with its name; name_length is stored as given
Vk(sig, name, comp, name_length) ==
    [t |-> "vk", sig |-> sig, name |-> name, comp |-> comp, name_length |-> name_length]

\* a cell with the given size field and an empty body of 4 bytes
RawCell(size_field) == [t |-> "raw", size_field |-> size_field]

\* a Key Value named "v" with its data fields: the data-size field as its
\* four bytes, the data-offset field as its four bytes (`inline`) or, with
\* no such bytes, as a reference to a cell, and the data type
VkData(data_size, inline, data_offset, data_type) ==
    [t |-> "vkd", data_size |-> data_size, inline |-> inline,
     data_offset |-> data_offset, data_type |-> data_type]

\* a cell whose body is the bytes `head` followed by zero bytes, `len` bytes
\* in all
Blob(head, len) == [t |-> "blob", head |-> head, len |-> len]

\* a Big Data header
Db(sig, segment_count, segment_list) ==
    [t |-> "db", sig |-> sig, segment_count |-> segment_count,
     segment_list |-> segment_list]

\* the UTF-16LE bytes of a sequence of code points
RECURSIVE EncodeUtf16LE(_)
EncodeUtf16LE(cs) ==
    IF cs = << >> THEN << >>
    ELSE IF cs[1] < 65536 THEN LE16(cs[1]) \o EncodeUtf16LE(Tail(cs))
    ELSE LE16(55296 + ((cs[1] - 65536) \div 1024)) \o LE16(56320 + ((cs[1] - 65536) % 1024))
         \o EncodeUtf16LE(Tail(cs))

\* the stored bytes of a name: one byte per character, or UTF-16LE
NameBytes(name, comp) == IF comp THEN name ELSE EncodeUtf16LE(name)

RefBytes(r, offs) == IF r = 0 THEN SentinelBytes ELSE LE32(offs[r])

RECURSIVE RefsBytes(_, _, _)
RefsBytes(items, offs, pad) ==
    IF items = << >> THEN << >>
    ELSE RefBytes(items[1], offs) \o pad \o RefsBytes(Tail(items), offs, pad)

\* the body of a cell (what follows the size field)
CellBody(c, offs) ==
    CASE c.t = "nk" ->
            SigOf("nk") \o LE16(IF c.comp THEN KEY_COMP_NAME ELSE 0)
            \o Zeros(8) \o Zeros(4) \o Zeros(4)
            \o LE32(0)
            \o LE32(IF "volatile_subkey_count" \in DOMAIN c THEN c.volatile_subkey_count ELSE 0)
            \o RefBytes(c.subkeys, offs) \o SentinelBytes
            \o LE32(c.vals_count) \o RefBytes(c.vals, offs)
            \o SentinelBytes \o SentinelBytes \o Zeros(20)
            \o LE16(Len(NameBytes(c.name, c.comp))) \o LE16(0)
            \o NameBytes(c.name, c.comp)
      [] c.t = "list" ->
            SigOf(c.sig) \o LE16(c.count)
            \o RefsBytes(c.items, offs, IF c.sig \in {"lf", "lh"} THEN Zeros(4) ELSE << >>)
      [] c.t = "vlist" -> RefsBytes(c.items, offs, << >>)
      [] c.t = "vk" ->
            c.sig \o LE16(c.name_length) \o LE32(0) \o LE32(0) \o LE32(0)
            \o LE16(IF c.comp THEN VALUE_COMP_NAME ELSE 0) \o LE16(0)
            \o NameBytes(c.name, c.comp)
      [] c.t = "raw" -> Zeros(4)
      [] c.t = "vkd" ->
            SigOf("vk") \o LE16(1) \o c.data_size
            \o (IF c.inline # << >> THEN c.inline ELSE RefBytes(c.data_offset, offs))
            \o LE32(c.data_type) \o LE16(VALUE_COMP_NAME) \o LE16(0) \o << 118 >>
      [] c.t = "blob" -> c.head \o Zeros(c.len - Len(c.head))
      [] c.t = "db" -> SigOf(c.sig) \o LE16(c.segment_count) \o RefBytes(c.segment_list, offs)

RoundUp8(n) == ((n + 7) \div 8) * 8

\* the size of a cell: the size field and the body, padded
CellSize(c) ==
    RoundUp8(CELL_HEADER_SIZE
             + Len(CellBody(c, [k \in Nat |-> 0])))

RECURSIVE CellOffset(_, _)
CellOffset(cells, k) ==
    IF k = 1 THEN FirstCellOffset
    ELSE CellOffset(cells, k - 1) + CellSize(cells[k - 1])

CellBytes(c, offs) ==
    LET body == CellBody(c, offs)
        size == CellSize(c)
    IN  (IF c.t = "raw" THEN LEI32(c.size_field) ELSE LEI32(0 - size))
        \o body \o Zeros(size - CELL_HEADER_SIZE - Len(body))

RECURSIVE CellsBytes(_, _, _)
CellsBytes(cells, k, offs) ==
    IF k > Len(cells) THEN << >>
    ELSE CellBytes(cells[k], offs) \o CellsBytes(cells, k + 1, offs)

HbinSignature == << 104, 98, 105, 110 >>

\* the cell area of a hive made of the given cells
Image(cells) ==
    LET offs == [k \in 1..Len(cells) |-> CellOffset(cells, k)]
    IN  HbinSignature \o Zeros(FirstCellOffset - 4) \o CellsBytes(cells, 1, offs)

----------------------------------------------------------------------------
(* Hives for the subkey lookup: a root Key Node whose subkeys list is a     *)
(* Leaf, or an Index Root over Leafs, of Key Nodes with sorted names.       *)

\* the most subkeys a Key Node of these hives has
MaxSubkeys == 4

\* the names subkeys are taken from, in ascending order of their folds:
\* "A", "Ab", "b", "bb", "C", ...
Letter(k) == IF k % 2 = 1 THEN 64 + k ELSE 96 + k

KeyName(i) ==
    IF i % 2 = 1 THEN << Letter((i + 1) \div 2) >>
    ELSE << Letter(i \div 2), 98 >>

KeyNameIds == 1..(MaxSubkeys + 1)

SwapCase(c) ==
    IF c >= 65 /\ c <= 90 THEN c + 32
    ELSE IF c >= 97 /\ c <= 122 THEN c - 32
    ELSE c

\* the names looked up: every name in both cases, and names no key has
QueryNames ==
    {KeyName(i) : i \in KeyNameIds}
    \cup {[j \in 1..Len(KeyName(i)) |-> SwapCase(KeyName(i)[j])] : i \in KeyNameIds}
    \cup {<< >>, << 65, 97 >>, << 122 >>}

\* the elements of a set of numbers in ascending order
RECURSIVE SortedSeq(_)
SortedSeq(S) ==
    IF S = {} THEN << >>
    ELSE LET m == CHOOSE x \in S : \A y \in S : x <= y
         IN  << m >> \o SortedSeq(S \ {m})

KeySets == {S \in SUBSET KeyNameIds : Cardinality(S) <= MaxSubkeys}

\* the ways to cut n items into consecutive non-empty groups
RECURSIVE Compositions(_)
Compositions(n) ==
    IF n = 0 THEN {<< >>}
    ELSE UNION {{<< k >> \o c : c \in Compositions(n - k)} : k \in 1..n}

RECURSIVE SumSeq(_)
SumSeq(q) == IF q = << >> THEN 0 ELSE q[1] + SumSeq(Tail(q))

RootName == << 82 >>

\* the Key Node cells of the subkeys `ids`, none with subkeys or values
KeyCells(ids, comp) == [i \in 1..Len(ids) |-> Nk(KeyName(ids[i]), comp, 0, 0, 0)]

\* a root (cell 1) with the Leaf `sig` (cell 2) over the keys `ids`
LeafHive(sig, ids, comp) ==
    << Nk(RootName, TRUE, 2, 0, 0),
       SubkeysListCell(sig, Len(ids), [i \in 1..Len(ids) |-> 2 + i]) >>
    \o KeyCells(ids, comp)

\* a root (cell 1) with an Index Root (cell 2) over Leafs (cells 3..) that
\* hold groups[1], groups[2], ... of the keys `ids`
IndexRootHive(sig, ids, groups, comp) ==
    LET G == Len(groups)
        before(g) == SumSeq(SubSeq(groups, 1, g - 1))
    IN  << Nk(RootName, TRUE, 2, 0, 0),
           SubkeysListCell("ri", G, [g \in 1..G |-> 2 + g]) >>
        \o [g \in 1..G |->
              SubkeysListCell(sig, groups[g],
                              [i \in 1..groups[g] |-> 2 + G + before(g) + i])]
        \o KeyCells(ids, comp)

\* the Leaf type and the name encoding vary together
LeafKinds == { << "lf", TRUE >>, << "lh", FALSE >>, << "li", TRUE >> }

SubkeyHives ==
    {LeafHive(k[1], SortedSeq(S), k[2]) : S \in KeySets, k \in LeafKinds}
    \cup UNION {{IndexRootHive("lh", SortedSeq(S), g, Cardinality(S) % 2 = 0) :
                    g \in Compositions(Cardinality(S))} : S \in KeySets}
    \cup {<< Nk(RootName, TRUE, 0, 0, 0) >>}

\* the length of the cell area of these hives: the cells, then zero bytes
CellAreaLen == 4096

\* a hive with a valid base block whose root cell is the first cell
HiveOf(cells) ==
    /\ base_block = ValidBaseBlock(LE32(FirstCellOffset))
    /\ data = [len |-> CellAreaLen, bytes |-> Image(cells)]

InitSubkey ==
    /\ \E cells \in SubkeyHives : HiveOf(cells)
    /\ overflow_checks \in BOOLEAN
    /\ call = [op |-> "init"]
    /\ res = NoCall
    /\ big_data_slices = NoCall
    /\ log = << >>
    /\ stack = << >>
    /\ iterator = NoCall

\* hive.root_key_node()?.subkey(name)
Subkey(name) ==
    /\ call.op = "init"
    /\ call' = [op |-> "subkey", name |-> name]
    /\ res' = Try(root_key_node, LAMBDA key_node : subkey(key_node, name))
    /\ UNCHANGED << base_block, data, overflow_checks, big_data_slices, log, stack, iterator >>

NextSubkey == \E name \in QueryNames : Subkey(name)

SpecSubkey == InitSubkey /\ [][NextSubkey]_vars

----------------------------------------------------------------------------
(* Hives for subpath: a root, its subkeys, and their subkeys.               *)

\* the longest path looked up, in characters
MaxPathLen == 4

\* the characters of the paths: the backslash, "a" and "b"
PathChars == {Backslash, 97, 98}

RECURSIVE SeqsUpTo(_, _)
SeqsUpTo(S, n) ==
    IF n = 0 THEN {<< >>}
    ELSE SeqsUpTo(S, n - 1)
         \cup {Append(q, x) : q \in {r \in SeqsUpTo(S, n - 1) : Len(r) = n - 1}, x \in S}

Paths == SeqsUpTo(PathChars, MaxPathLen)

\* the keys of these hives are named "A" and "b"
TreeKeyIds == {1, 3}

\* a root (cell 1) with a Leaf (cell 2) over the keys `kids` (cells 3..),
\* the key i with a Leaf of its own (cell 2+K+i) over the keys sub[i]; a
\* key without subkeys stores the sentinel as its subkeys list offset
TreeHive(kids, sub) ==
    LET K == Len(kids)
        before(i) == SumSeq([j \in 1..(i - 1) |-> Len(sub[j])])
        first(i) == 2 + 2 * K + before(i)
    IN  << Nk(RootName, TRUE, IF K = 0 THEN 0 ELSE 2, 0, 0),
           SubkeysListCell("lf", K, [i \in 1..K |-> 2 + i]) >>
        \o [i \in 1..K |->
              Nk(KeyName(kids[i]), TRUE, IF sub[i] = << >> THEN 0 ELSE 2 + K + i, 0, 0)]
        \o [i \in 1..K |->
              SubkeysListCell("li", Len(sub[i]), [j \in 1..Len(sub[i]) |-> first(i) + j])]
        \o [n \in 1..SumSeq([j \in 1..K |-> Len(sub[j])]) |->
              LET i == CHOOSE i \in 1..K : before(i) < n /\ n <= before(i) + Len(sub[i])
              IN  Nk(KeyName(sub[i][n - before(i)]), FALSE, 0, 0, 0)]

TreeHives ==
    UNION {{TreeHive(SortedSeq(S), [i \in 1..Cardinality(S) |-> SortedSeq(f[i])]) :
                f \in [1..Cardinality(S) -> SUBSET TreeKeyIds]} :
           S \in SUBSET TreeKeyIds}

InitSubpath ==
    /\ \E cells \in TreeHives : HiveOf(cells)
    /\ overflow_checks \in BOOLEAN
    /\ call = [op |-> "init"]
    /\ res = NoCall
    /\ big_data_slices = NoCall
    /\ log = << >>
    /\ stack = << >>
    /\ iterator = NoCall

\* hive.root_key_node()?.subpath(path)
Subpath(path) ==
    /\ call.op = "init"
    /\ call' = [op |-> "subpath", path |-> path]
    /\ res' = Try(root_key_node, LAMBDA key_node : subpath(key_node, path))
    /\ UNCHANGED << base_block, data, overflow_checks, big_data_slices, log, stack, iterator >>

NextSubpath == \E path \in Paths : Subpath(path)

SpecSubpath == InitSubpath /\ [][NextSubpath]_vars

----------------------------------------------------------------------------
(* Hives for value(): a root Key Node with a values list.                   *)

\* the most Key Values a values list of these hives has
MaxValues == 3

\* the Key Values a list is made of: "A" stored one byte per character, "a"
\* and "b" stored as UTF-16LE, a cell with a signature other than vk, and a
\* Key Value whose name length exceeds its cell
ValueKinds == {"A", "a", "b", "badsig", "longname"}

ValueCell(kind) ==
    CASE kind = "A" -> Vk(SigOf("vk"), << 65 >>, TRUE, 1)
      [] kind = "a" -> Vk(SigOf("vk"), << 97 >>, FALSE, 2)
      [] kind = "b" -> Vk(SigOf("vk"), << 98 >>, FALSE, 2)
      [] kind = "badsig" -> Vk(SigOf("nk"), << 65 >>, TRUE, 1)
      [] kind = "longname" -> Vk(SigOf("vk"), << 98 >>, TRUE, 200)

\* a root (cell 1) with a values list (cell 2) over the Key Values `kinds`
\* (cells 3..)
ValuesHive(kinds) ==
    << Nk(RootName, TRUE, 0, 2, Len(kinds)),
       ValuesListCell([i \in 1..Len(kinds) |-> 2 + i]) >>
    \o [i \in 1..Len(kinds) |-> ValueCell(kinds[i])]

ValueHives ==
    {ValuesHive(kinds) : kinds \in SeqsUpTo(ValueKinds, MaxValues)}
    \cup {<< Nk(RootName, TRUE, 0, 0, 0) >>}

ValueNames == {<< 65 >>, << 97 >>, << 98 >>, << 120 >>}

InitValue ==
    /\ \E cells \in ValueHives : HiveOf(cells)
    /\ overflow_checks \in BOOLEAN
    /\ call = [op |-> "init"]
    /\ res = NoCall
    /\ big_data_slices = NoCall
    /\ log = << >>
    /\ stack = << >>
    /\ iterator = NoCall

\* hive.root_key_node()?.value(name)
Value(name) ==
    /\ call.op = "init"
    /\ call' = [op |-> "value", name |-> name]
    /\ res' = Try(root_key_node, LAMBDA key_node : value(key_node, name))
    /\ UNCHANGED << base_block, data, overflow_checks, big_data_slices, log, stack, iterator >>

NextValue == \E name \in ValueNames : Value(name)

SpecValue == InitValue /\ [][NextValue]_vars

----------------------------------------------------------------------------
(* Hives with stored offsets and sizes no well-formed hive has, and the     *)
(* read operations on them.                                                 *)

\* a root whose Leaf and whose values list each hold one item that stores
\* the sentinel
SentinelItemsHive ==
    << Nk(RootName, TRUE, 2, 3, 1), SubkeysListCell("lf", 1, << 0 >>),
       ValuesListCell(<< 0 >>) >>

\* a root whose Leaf refers to a cell with the size field -2^31
MinSizeHive ==
    << Nk(RootName, TRUE, 2, 0, 0), SubkeysListCell("lh", 1, << 3 >>), RawCell(I32_MIN) >>

\* a well-formed hive: two subkeys and two values
PlainHive ==
    << Nk(RootName, TRUE, 2, 5, 2), SubkeysListCell("lf", 2, << 3, 4 >>),
       Nk(KeyName(1), TRUE, 0, 0, 0), Nk(KeyName(3), FALSE, 0, 0, 0),
       ValuesListCell(<< 6, 7 >>), ValueCell("A"), ValueCell("b") >>

ReadHives == {SentinelItemsHive, MinSizeHive, PlainHive}

\* the stored root cell offset: the first cell, or the sentinel
RootOffsets == {LE32(FirstCellOffset), SentinelBytes}

InitRead ==
    /\ \E cells \in ReadHives, root \in RootOffsets :
          /\ base_block = ValidBaseBlock(root)
          /\ data = [len |-> CellAreaLen, bytes |-> Image(cells)]
    /\ overflow_checks \in BOOLEAN
    /\ call = [op |-> "init"]
    /\ res = NoCall
    /\ big_data_slices = NoCall
    /\ log = << >>
    /\ stack = << >>
    /\ iterator = NoCall

\* hive.root_key_node()
RootKeyNode ==
    /\ call.op = "init"
    /\ call' = [op |-> "root_key_node"]
    /\ res' = root_key_node
    /\ UNCHANGED << base_block, data, overflow_checks, big_data_slices, log, stack, iterator >>

NextRead == RootKeyNode \/ NextSubkey \/ NextSubpath \/ NextValue

SpecRead == InitRead /\ [][NextRead]_vars

----------------------------------------------------------------------------
(* Hives for the data of a Key Value: a root with one Key Value, whose data *)
(* is stored in the data-offset field, in a cell, or as Big Data.           *)

\* the data-size field for data stored in the data-offset field: the top bit
\* and the size
InlineSize(n) == << n % 256, (n \div 256) % 256, (n \div 65536) % 256, 128 + (n \div 16777216) >>

\* data types of the Key Values: SZ, DWORD, DWORD_BIG_ENDIAN, MULTI_SZ, QWORD
\* and a code that is no data type
DataTypes == {RegSZ, RegDWord, RegDWordBigEndian, RegMultiSZ, RegQWord, RegQWord + 1}

\* data of cells: the little-endian 42 in four and in eight bytes, the
\* strings "a" NUL "b" and "a" NUL "b" NUL NUL, and an unpaired surrogate
\* followed by "a"
DataContents ==
    { << 42, 0, 0, 0 >>, << 42, 0, 0, 0, 1, 0, 0, 0 >>,
      << 97, 0, 0, 0, 98, 0 >>, << 97, 0, 0, 0, 98, 0, 0, 0, 0, 0 >>,
      << 61, 216, 97, 0 >> }

\* the body of the cell holding `content`
BodyLen(content) == RoundUp8(CELL_HEADER_SIZE + Len(content)) - CELL_HEADER_SIZE

\* the most segments a Big Data header of these hives declares
MaxSegments == 3

\* the cells behind the Key Value (cell 3) of a Big Data value of `needed`
\* segments, whose header declares `declared` segments: the header (cell 4),
\* the segment list (cell 5) of `declared` items, of which those beyond the
\* needed ones store the sentinel, and the segments (cells 6..)
BigDataCells(sig, declared, needed) ==
    << Db(sig, declared, 5),
       ValuesListCell([i \in 1..declared |-> IF i <= needed THEN 5 + i ELSE 0]) >>
    \o [i \in 1..needed |-> Blob(<< 97, 0 >>, BIG_DATA_SEGMENT_SIZE)]

\* the Key Value and the cells of its data
DataLayouts ==
    {<< VkData(InlineSize(n), c, 0, 0) >> :
        n \in {0, 2, 4, 5}, c \in {<< 42, 0, 0, 0 >>, << 97, 0, 98, 0 >>}}
    \cup {<< VkData(LE32(n), << >>, 4, 0), Blob(c, Len(c)) >> :
            c \in DataContents, n \in {0, 2, 4, 6, 8, 10, 12, 16, 20}}
    \cup {<< VkData(LE32(BIG_DATA_SEGMENT_SIZE + d), << >>, 4, 0),
             Blob(<< 97, 0 >>, BIG_DATA_SEGMENT_SIZE) >> : d \in {0 - 1, 0, 1}}
    \cup {<< VkData(LE32(BIG_DATA_SEGMENT_SIZE + 1), << >>, 4, 0) >>
          \o BigDataCells("db", 2, 2)}
    \cup {<< VkData(LE32(4), << >>, 0, 0) >>}

\* a root (cell 1) with a values list (cell 2) of one Key Value (cell 3)
DataHive(layout, data_type) ==
    << Nk(RootName, TRUE, 0, 2, 1), ValuesListCell(<< 3 >>),
       [layout[1] EXCEPT !.data_type = data_type] >>
    \o Tail(layout)

\* a hive with a valid base block whose root cell is the first cell, and
\* CellAreaLen zero bytes behind the last cell
LongHiveOf(cells) ==
    /\ base_block = ValidBaseBlock(LE32(FirstCellOffset))
    /\ data = [len |-> Len(Image(cells)) + CellAreaLen, bytes |-> Image(cells)]

InitData ==
    /\ \E layout \in DataLayouts : \E data_type \in DataTypes :
          LongHiveOf(DataHive(layout, data_type))
    /\ overflow_checks \in BOOLEAN
    /\ call = [op |-> "init"]
    /\ res = NoCall
    /\ big_data_slices = NoCall
    /\ log = << >>
    /\ stack = << >>
    /\ iterator = NoCall

\* hive.root_key_node()?.values()?.next(): the first Key Value of the root
\* (the values list of these hives is not empty)
FirstValue ==
    Try(root_key_node, LAMBDA key_node :
    Try(values(key_node), LAMBDA key_values : KeyValues_next(key_values)))

\* let data = key_value.data(): a Big Data iterator returned is kept
Data ==
    /\ call.op = "init"
    /\ call' = [op |-> "data"]
    /\ res' = Try(FirstValue, LAMBDA key_value : KeyValue_data(key_value))
    /\ big_data_slices' = IF IsOk(res') /\ res'.val.variant = "Big" THEN res'.val.iter
                          ELSE big_data_slices
    /\ UNCHANGED << base_block, data, overflow_checks, log, stack, iterator >>

\* key_value.string_data()
StringData ==
    /\ call.op = "init"
    /\ call' = [op |-> "string_data"]
    /\ res' = Try(FirstValue, LAMBDA key_value : string_data(key_value))
    /\ UNCHANGED << base_block, data, overflow_checks, big_data_slices, log, stack, iterator >>

\* key_value.multi_string_data()
MultiStringData ==
    /\ call.op = "init"
    /\ call' = [op |-> "multi_string_data"]
    /\ res' = Try(FirstValue, LAMBDA key_value : multi_string_data(key_value))
    /\ UNCHANGED << base_block, data, overflow_checks, big_data_slices, log, stack, iterator >>

\* key_value.dword_data(), where the stack lies above or below the buffer
DwordData(local_above_buffer) ==
    /\ call.op = "init"
    /\ call' = [op |-> "dword_data"]
    /\ res' = Try(FirstValue, LAMBDA key_value : dword_data(key_value, local_above_buffer))
    /\ UNCHANGED << base_block, data, overflow_checks, big_data_slices, log, stack, iterator >>

\* key_value.qword_data()
QwordData(local_above_buffer) ==
    /\ call.op = "init"
    /\ call' = [op |-> "qword_data"]
    /\ res' = Try(FirstValue, LAMBDA key_value : qword_data(key_value, local_above_buffer))
    /\ UNCHANGED << base_block, data, overflow_checks, big_data_slices, log, stack, iterator >>

NextData ==
    \/ Data
    \/ StringData
    \/ MultiStringData
    \/ \E local_above_buffer \in BOOLEAN : DwordData(local_above_buffer)
    \/ \E local_above_buffer \in BOOLEAN : QwordData(local_above_buffer)

SpecData == InitData /\ [][NextData]_vars

----------------------------------------------------------------------------
(* Hives for the clearing of the volatile subkey counts: a tree of Key      *)
(* Nodes three levels deep under subkeys lists of every kind, every Key     *)
(* Node with a volatile subkey count other than zero, and the same tree     *)
(* with one cell damaged.                                                   *)

\* a Key Node with a volatile subkey count
NkVolatile(name, subkeys, volatile_subkey_count) ==
    [t |-> "nk", name |-> name, comp |-> TRUE, subkeys |-> subkeys,
     vals |-> 0, vals_count |-> 0, volatile_subkey_count |-> volatile_subkey_count]

SubkeysListKinds == {"lf", "lh", "li", "ri"}

\* the root R (cell 1) over A and B (cells 5, 6), A over C and D (cells 10,
\* 11), C over E (cell 13); the list of the root (cell 2) and the list of A
\* (cell 7) are Leafs of the given kind, or Index Roots over the Leafs in
\* cells 3, 4 and 8, 9
ClearTree(root_kind, a_kind) ==
    << NkVolatile(<< 82 >>, 2, 1),
       IF root_kind = "ri" THEN SubkeysListCell("ri", 2, << 3, 4 >>)
       ELSE SubkeysListCell(root_kind, 2, << 5, 6 >>),
       SubkeysListCell("lf", 1, << 5 >>),
       SubkeysListCell("lh", 1, << 6 >>),
       NkVolatile(<< 65 >>, 7, 2),
       NkVolatile(<< 66 >>, 0, 3),
       IF a_kind = "ri" THEN SubkeysListCell("ri", 2, << 8, 9 >>)
       ELSE SubkeysListCell(a_kind, 2, << 10, 11 >>),
       SubkeysListCell("li", 1, << 10 >>),
       SubkeysListCell("lf", 1, << 11 >>),
       NkVolatile(<< 67 >>, 12, 4),
       NkVolatile(<< 68 >>, 0, 5),
       SubkeysListCell("li", 1, << 13 >>),
       NkVolatile(<< 69 >>, 0, 6) >>

\* what a damaged cell is replaced by: an unallocated cell, a cell of zero
\* bytes (no signature), a Leaf without items, an Index Root
DamagedCells ==
    { RawCell(8), Blob(<< >>, 80), SubkeysListCell("lf", 0, << >>),
      SubkeysListCell("ri", 1, << 12 >>) }

ClearTrees ==
    UNION {{ClearTree(root_kind, a_kind)} \cup
           {[ClearTree(root_kind, a_kind) EXCEPT ![k] = damaged] :
                k \in 1..13, damaged \in DamagedCells} :
           root_kind \in SubkeysListKinds, a_kind \in SubkeysListKinds}

\* the bytes `bytes` with the bytes b stored from byte `off` on
Patch(bytes, off, b) ==
    [i \in 1..Len(bytes) |-> IF i > off /\ i <= off + Len(b) THEN b[i - off] ELSE bytes[i]]

\* the offset of the second cell of OverlapImage
OverlapKeyOffset == FirstCellOffset + CellSize(NkVolatile(<< 82 >>, 0, 1))

\* a hive whose cells overlap: the root R (cell 1) and a Key Node M (cell 2)
\* without subkeys; the subkeys list of R is an Index Leaf that lies inside
\* the header of M: its size field is the parent field of M, its signature
\* and count are the subkey count field of M, and its one item, which
\* refers to M, is the volatile subkey count field of M
OverlapImage ==
    Patch(Patch(Patch(
        Image(<< NkVolatile(<< 82 >>, 0, 1),
                 NkVolatile(<< 77 >>, 0, OverlapKeyOffset) >>),
        FirstCellOffset + CELL_HEADER_SIZE + KN_subkeys_list_offset,
        LE32(OverlapKeyOffset + CELL_HEADER_SIZE + 16)),
        OverlapKeyOffset + CELL_HEADER_SIZE + 16, LEI32(0 - 16)),
        OverlapKeyOffset + CELL_HEADER_SIZE + 20, SigOf("li") \o LE16(1))

\* the hives: each image with the first cell as its root cell, and one
\* image with root cell offsets that refer to no Key Node: the list in cell
\* 2, an offset beyond the cell area
ClearHives ==
    {[image |-> Image(cells), root |-> FirstCellOffset] : cells \in ClearTrees}
    \cup {[image |-> OverlapImage, root |-> FirstCellOffset]}
    \cup {[image |-> Image(ClearTree("lf", "lh")), root |-> root] :
              root \in {FirstCellOffset + 88, 2 * CellAreaLen}}

\* the most calls of clear_volatile_subkeys made on one hive
MaxRuns == 2

InitClear ==
    /\ \E hive \in ClearHives :
          /\ base_block = ValidBaseBlock(LE32(hive.root))
          /\ data = [len |-> Len(hive.image) + 8, bytes |-> hive.image]
    /\ overflow_checks = FALSE
    /\ call = [op |-> "init"]
    /\ res = NoCall
    /\ big_data_slices = NoCall
    /\ log = << >>
    /\ stack = << >>
    /\ iterator = NoCall

\* the innermost frame of the running call
Top == stack[Len(stack)]

\* the frames with the innermost one replaced
ReplaceTop(frame) == [stack EXCEPT ![Len(stack)] = frame]

\* a call of clear_volatile_subkeys has not returned yet
Running == [kind |-> "Running"]

\* the nested calls of KeyNode::clear_volatile_subkeys the call stack of the
\* process has room for (some thousands in the program)
StackFrames == 8

\* the call stack is exhausted: the process is aborted, and the call of
\* clear_volatile_subkeys never returns
StackOverflow == [kind |-> "StackOverflow"]

\* the innermost call returns Ok(()): its caller goes on, and without a
\* caller hive.clear_volatile_subkeys() returns Ok(())
ReturnOk ==
    /\ stack' = SubSeq(stack, 1, Len(stack) - 1)
    /\ res' = IF Len(stack) = 1 THEN Ok("unit") ELSE Running

\* the innermost call returns the error r, and `?` hands it up through
\* every caller
ReturnErr(r) ==
    /\ stack' = << >>
    /\ res' = r

\* a subkeys list read on its own: the Key Nodes its items refer to in list
\* order, up to and including the first one that does not resolve
RECURSIVE UpToFirstFailure(_)
UpToFirstFailure(results) ==
    IF results = << >> THEN << >>
    ELSE IF ~IsOk(Head(results)) THEN << Head(results) >>
    ELSE << Head(results) >> \o UpToFirstFailure(Tail(results))

RECURSIVE Flatten(_)
Flatten(seqs) == IF seqs = << >> THEN << >> ELSE Head(seqs) \o Flatten(Tail(seqs))

LeafKeyNodes(leaf_item_ranges) ==
    [k \in 1..LeafItemRanges_len(leaf_item_ranges) |->
        from_leaf_item_range(LeafItemRanges_nth(leaf_item_ranges, k - 1).val)]

SubkeysInOrder(key_node) ==
    Let(subkeys_cell_range(key_node), LAMBDA cell_range :
        IF cell_range = None THEN << >>
        ELSE IF ~IsOk(cell_range) THEN << cell_range >>
        ELSE Let(SubKeyNodes_new(cell_range.val), LAMBDA subkeys :
             IF ~IsOk(subkeys) THEN << subkeys >>
             ELSE IF subkeys.val.variant = "Leaf" THEN LeafKeyNodes(subkeys.val.iter)
             ELSE Flatten([k \in 1..IndexRootItemRanges_len(subkeys.val.iter) |->
                     Let(from_index_root_item_range(
                             IndexRootItemRanges_nth(subkeys.val.iter, k - 1).val),
                         LAMBDA leaf_item_ranges :
                         IF ~IsOk(leaf_item_ranges) THEN << leaf_item_ranges >>
                         ELSE LeafKeyNodes(leaf_item_ranges.val))])))

\* the pre-order of the tree under a Key Node: the Key Node, then the
\* pre-order of each of its subkeys in list order, up to and including the
\* first subkeys list or subkey that does not resolve
RECURSIVE PreOrderWithin(_, _)
PreOrderWithin(key_node, depth) ==
    IF depth = 0 THEN << Ok(key_node) >>
    ELSE UpToFirstFailure(
        << Ok(key_node) >>
        \o Flatten([k \in 1..Len(SubkeysInOrder(key_node)) |->
                      IF IsOk(SubkeysInOrder(key_node)[k])
                      THEN PreOrderWithin(SubkeysInOrder(key_node)[k].val, depth - 1)
                      ELSE << SubkeysInOrder(key_node)[k] >>]))

\* the tree is followed as deep as the nested calls can go
PreOrder(key_node) == PreOrderWithin(key_node, StackFrames)

\* the pre-order of the hive
HivePreOrder ==
    IF IsOk(root_key_node) THEN PreOrder(root_key_node.val) ELSE << root_key_node >>

\* hive.clear_volatile_subkeys() is called: the root Key Node is resolved.
\* The call record keeps the hive, the result of the call before and the
\* pre-order of the hive as they are when the call starts.
ClearVolatileSubkeys ==
    /\ stack = << >>
    /\ iterator = NoCall
    /\ res # Running
    /\ res # StackOverflow
    /\ IF call.op = "init" THEN TRUE ELSE call.run < MaxRuns
    /\ call' = [op |-> "clear_volatile_subkeys",
                run |-> IF call.op = "init" THEN 1 ELSE call.run + 1,
                before |-> [base_block |-> base_block, data |-> data],
                previous |-> res, pre_order |-> HivePreOrder]
    /\ log' = << >>
    /\ IF IsOk(root_key_node_mut)
       THEN /\ stack' = << [pc |-> "clear", key_node |-> root_key_node_mut.val] >>
            /\ res' = Running
       ELSE ReturnErr(root_key_node_mut)
    /\ UNCHANGED << base_block, data, overflow_checks, big_data_slices, iterator >>

\* KeyNode::clear_volatile_subkeys, the write: the count of the Key Node is
\* set to zero
Clear ==
    /\ stack # << >>
    /\ Top.pc = "clear"
    /\ data' = set_volatile_subkey_count(Top.key_node, 0)
    /\ log' = Append(log, Top.key_node.header_range.start)
    /\ stack' = ReplaceTop([pc |-> "subkeys_mut", key_node |-> Top.key_node])
    /\ UNCHANGED << base_block, overflow_checks, call, res, big_data_slices, iterator >>

\* KeyNode::clear_volatile_subkeys, `self.subkeys_mut()` and `subkeys?`
SubkeysMut ==
    /\ stack # << >>
    /\ Top.pc = "subkeys_mut"
    /\ \E subkeys \in {subkeys_mut(Top.key_node)} :
          IF subkeys = None THEN ReturnOk
          ELSE IF IsOk(subkeys)
          THEN /\ stack' = ReplaceTop([pc |-> "next", subkeys |-> subkeys.val])
               /\ res' = Running
          ELSE ReturnErr(subkeys)
    /\ UNCHANGED << base_block, data, overflow_checks, call, big_data_slices, log, iterator >>

\* KeyNode::clear_volatile_subkeys, `subkeys.next()` and `subkey?`: the call
\* on the next subkey begins, or the loop ends. The code counts no depth:
\* the nested call is made whenever there is a subkey, and a call the stack
\* has no room for aborts the process.
SubkeysNext ==
    /\ stack # << >>
    /\ Top.pc = "next"
    /\ \E n \in {SubKeyNodesMut_next(Top.subkeys)} :
          IF n.item = None THEN ReturnOk
          ELSE IF IsOk(n.item)
          THEN IF Len(stack) < StackFrames
               THEN /\ stack' = Append(ReplaceTop([pc |-> "next", subkeys |-> n.iter]),
                                       [pc |-> "clear", key_node |-> n.item.val])
                    /\ res' = Running
               ELSE ReturnErr(StackOverflow)
          ELSE ReturnErr(n.item)
    /\ UNCHANGED << base_block, data, overflow_checks, call, big_data_slices, log, iterator >>

NextClear == ClearVolatileSubkeys \/ Clear \/ SubkeysMut \/ SubkeysNext

SpecClear == InitClear /\ [][NextClear]_vars

\* ---------------------------------------------------------------------
\* Hives with a cycle
\* ---------------------------------------------------------------------

\* the root R (cell 1) over A (cell 3), A over B (cell 5); the list of B
\* (cell 6) refers back to the Key Node in cell `back`: 5 is B itself, 3 and
\* 1 are its ancestors; `back` = 0 leaves B without subkeys (no cycle). The
\* lists are Leafs of the given kind, or Index Roots over a Leaf (cells 7,
\* 8, 9).
CycleTree(kind, back) ==
    << NkVolatile(<< 82 >>, 2, 1),
       IF kind = "ri" THEN SubkeysListCell("ri", 1, << 7 >>)
       ELSE SubkeysListCell(kind, 1, << 3 >>),
       NkVolatile(<< 65 >>, 4, 2),
       IF kind = "ri" THEN SubkeysListCell("ri", 1, << 8 >>)
       ELSE SubkeysListCell(kind, 1, << 5 >>),
       NkVolatile(<< 66 >>, IF back = 0 THEN 0 ELSE 6, 3),
       IF kind = "ri" THEN SubkeysListCell("ri", 1, << 9 >>)
       ELSE SubkeysListCell(kind, 1, << IF back = 0 THEN 5 ELSE back >>),
       SubkeysListCell("lf", 1, << 3 >>),
       SubkeysListCell("lh", 1, << 5 >>),
       SubkeysListCell("li", 1, << IF back = 0 THEN 5 ELSE back >>) >>

\* the cells the list of B refers back to
BackReferences == {0, 1, 3, 5}

CycleHives ==
    {[image |-> Image(CycleTree(kind, back)), root |-> FirstCellOffset, back |-> back] :
        kind \in SubkeysListKinds, back \in BackReferences}

InitCycle ==
    /\ \E hive \in CycleHives :
          /\ base_block = ValidBaseBlock(LE32(hive.root))
          /\ data = [len |-> Len(hive.image) + 8, bytes |-> hive.image]
    /\ overflow_checks = FALSE
    /\ call = [op |-> "init"]
    /\ res = NoCall
    /\ big_data_slices = NoCall
    /\ log = << >>
    /\ stack = << >>
    /\ iterator = NoCall

SpecCycle == InitCycle /\ [][NextClear]_vars

\* ---------------------------------------------------------------------
\* The index arithmetic of the two binary searches
\* ---------------------------------------------------------------------

\* u16::MAX, the largest count a subkeys list can declare
U16_MAX == 65535

\* the item counts searched: every small one, and the largest
MaxCount == 12

SearchCounts == (0..MaxCount) \cup {U16_MAX}

LeafTypes == {"Fast", "Hash", "Index"}

\* the item ranges of a Leaf, or of an Index Root, with `count` items
LeafOf(count, leaf_type) ==
    LeafItemRanges_new(count, FirstCellOffset + 6,
                       Range(FirstCellOffset + 8,
                             FirstCellOffset + 8 + count * item_size(leaf_type)),
                       leaf_type).val

IndexRootOf(count) ==
    IndexRootItemRanges_new(count, FirstCellOffset + 6,
                            Range(FirstCellOffset + 8,
                                  FirstCellOffset + 8 + count * INDEX_ROOT_ITEM_SIZE)).val

\* the searches: the variant of the subkeys list and its item ranges
LeafSearches ==
    {[pc |-> "entry", variant |-> "Leaf", ranges |-> LeafOf(count, leaf_type)] :
        count \in SearchCounts, leaf_type \in LeafTypes}

\* the Leafs an Index Root item can refer to: an empty one is rejected
\* before it is searched (leaf.rs:154-163)
NonEmptyLeafSearches == {search \in LeafSearches : LeafItemRanges_len(search.ranges) > 0}

Searches ==
    LeafSearches
    \cup {[pc |-> "entry", variant |-> "IndexRoot", ranges |-> IndexRootOf(count)] :
              count \in SearchCounts}

InitSearch ==
    /\ base_block = << >>
    /\ data = [len |-> 0, bytes |-> << >>]
    /\ overflow_checks = FALSE
    /\ call = [op |-> "init"]
    /\ res = NoCall
    /\ big_data_slices = NoCall
    /\ log = << >>
    /\ \E search \in Searches : stack = << search >>
    /\ iterator = NoCall

\* the frame of a search at the head of its loop: the boundaries, the
\* iterations carried out so far, and the last one of them
LoopFrame(variant, ranges, left, right, probes, probed) ==
    [pc |-> "loop", variant |-> variant, ranges |-> ranges, left |-> left,
     right |-> right, probes |-> probes, probed |-> probed]

\* the search returns
SearchReturns(r) ==
    /\ stack' = << >>
    /\ res' = r

\* what comparing a stored name with the searched one gives: the names are
\* any names, so every outcome is possible at every probe
Orderings == {"Less", "Equal", "Greater"}

\* binary_search_subkey_in_leaf up to its loop: the assertion and the first
\* boundaries
SearchInLeaf ==
    /\ stack # << >>
    /\ Top.pc = "entry"
    /\ Top.variant = "Leaf"
    /\ IF ~(LeafItemRanges_len(Top.ranges) <= U16_MAX) THEN SearchReturns(Panic)
       ELSE /\ stack' = << LoopFrame("Leaf", Top.ranges, 0,
                                     LeafItemRanges_len(Top.ranges) - 1, 0, None) >>
            /\ res' = Running
    /\ call' = [op |-> "binary_search_subkey_in_leaf"]
    /\ UNCHANGED << base_block, data, overflow_checks, big_data_slices, log, iterator >>

\* one iteration of the loop of binary_search_subkey_in_leaf: the Key Node of
\* the middle item does not resolve (iter_try!), or its name compares
\* Equal, Less or Greater
LeafIteration ==
    /\ stack # << >>
    /\ Top.pc = "loop"
    /\ Top.variant = "Leaf"
    /\ IF ~(Top.left <= Top.right) THEN SearchReturns(None)
       ELSE \E mid \in {(Top.left + Top.right) \div 2} :
            \E leaf_item_range \in {LeafItemRanges_nth(Top.ranges, mid)} :
               IF ~IsOk(leaf_item_range) THEN SearchReturns(Panic)
               ELSE \/ SearchReturns(Err("key_node"))
                    \/ \E ord \in Orderings :
                          IF ord = "Equal" THEN SearchReturns(Ok(leaf_item_range.val))
                          ELSE \E b \in {leaf_boundaries(ord, Top.left, mid, Top.right)} :
                                 /\ stack' = << LoopFrame("Leaf", Top.ranges, b.left, b.right,
                                                Top.probes + 1,
                                                [left |-> Top.left, mid |-> mid,
                                                 right |-> Top.right]) >>
                                 /\ res' = Running
    /\ UNCHANGED << base_block, data, overflow_checks, call, big_data_slices, log, iterator >>

\* binary_search_subkey_in_index_root up to its loop
SearchInIndexRoot ==
    /\ stack # << >>
    /\ Top.pc = "entry"
    /\ Top.variant = "IndexRoot"
    /\ IF ~(IndexRootItemRanges_len(Top.ranges) <= U16_MAX) THEN SearchReturns(Panic)
       ELSE /\ stack' = << LoopFrame("IndexRoot", Top.ranges, 0,
                                     IndexRootItemRanges_len(Top.ranges) - 1, 0, None) >>
            /\ res' = Running
    /\ call' = [op |-> "binary_search_subkey_in_index_root"]
    /\ UNCHANGED << base_block, data, overflow_checks, big_data_slices, log, iterator >>

\* one iteration of the loop of binary_search_subkey_in_index_root: the Leaf
\* of the middle item or one of its Key Nodes does not resolve, or the
\* first name compares Equal or Greater, or the last name is compared; after
\* that the search goes to the upper items or into the Leaf, which has any
\* count from one on
IndexRootIteration ==
    /\ stack # << >>
    /\ Top.pc = "loop"
    /\ Top.variant = "IndexRoot"
    /\ IF ~(Top.left <= Top.right) THEN SearchReturns(None)
       ELSE \E mid \in {(Top.left + Top.right) \div 2} :
            \E index_root_item_range \in {IndexRootItemRanges_nth(Top.ranges, mid)} :
            \E probed \in {[left |-> Top.left, mid |-> mid, right |-> Top.right]} :
               IF ~IsOk(index_root_item_range) THEN SearchReturns(Panic)
               ELSE \/ SearchReturns(Err("leaf_item_ranges"))
                    \/ SearchReturns(Err("key_node"))
                    \/ SearchReturns(Ok(index_root_item_range.val))
                    \/ /\ stack' = << LoopFrame("IndexRoot", Top.ranges, Top.left, mid - 1,
                                                Top.probes + 1, probed) >>
                       /\ res' = Running
                    \/ \E ord \in Orderings :
                          CASE after_last_probe(ord) = "found" ->
                                 SearchReturns(Ok(index_root_item_range.val))
                            [] after_last_probe(ord) = "upper" ->
                                 /\ stack' = << LoopFrame("IndexRoot", Top.ranges, mid + 1,
                                                Top.right, Top.probes + 1, probed) >>
                                 /\ res' = Running
                            [] OTHER ->
                                 \E search \in NonEmptyLeafSearches :
                                    /\ stack' = << search >>
                                    /\ res' = Running
    /\ UNCHANGED << base_block, data, overflow_checks, call, big_data_slices, log, iterator >>

NextSearch == SearchInLeaf \/ LeafIteration \/ SearchInIndexRoot \/ IndexRootIteration

SpecSearch == InitSearch /\ [][NextSearch]_vars

----------------------------------------------------------------------------
(* Hives for the iteration over subkeys and values: a root whose subkeys    *)
(* list is a Leaf and whose values list has as many items, some of which    *)
(* refer to no Key Node (no Key Value).                                     *)

\* what a list item refers to: a well-formed cell, an unallocated cell, a
\* cell with another signature, or nothing (the item stores 0xFFFFFFFF)
ItemKinds == {"good", "unallocated", "signature", "sentinel"}

\* the most items of a list
MaxItems == 3

\* the most calls made on one iterator
MaxCalls == 5

\* the cell a subkeys list item (a values list item) of a kind refers to
SubkeyCell(kind, i) ==
    CASE kind = "good" -> Nk(KeyName(i), TRUE, 0, 0, 0)
      [] kind = "signature" -> Blob(<< >>, 80)
      [] OTHER -> RawCell(8)

KeyValueCell(kind, i) ==
    CASE kind = "good" -> Vk(SigOf("vk"), KeyName(i), TRUE, Len(KeyName(i)))
      [] kind = "signature" -> Blob(<< >>, 24)
      [] OTHER -> RawCell(8)

\* a root (cell 1) with a Leaf (cell 2) and a values list (cell 3) whose
\* items are of the given kinds: the subkeys in the cells 4.., the Key
\* Values behind them
IterHive(leaf_kind, kinds) ==
    LET n == Len(kinds)
    IN  << Nk(RootName, TRUE, 2, 3, n),
           SubkeysListCell(leaf_kind[1], n,
                           [i \in 1..n |-> IF kinds[i] = "sentinel" THEN 0 ELSE 3 + i]),
           ValuesListCell([i \in 1..n |-> IF kinds[i] = "sentinel" THEN 0 ELSE 3 + n + i]) >>
        \o [i \in 1..n |-> SubkeyCell(kinds[i], i)]
        \o [i \in 1..n |-> KeyValueCell(kinds[i], i)]

\* what an item of an Index Root refers to: a Leaf of some Key Nodes (none
\* for an empty Leaf), an Index Root of one item, a Key Node
IndexRootItemKinds ==
    { << "lh", 0 >>, << "lh", 2 >>, << "li", 3 >>, << "ri", 1 >>, << "nk", 0 >> }

\* the Key Nodes of the Leafs before item g
KeysBefore(items, g) == SumSeq([j \in 1..(g - 1) |-> IF items[j][1] \in {"ri", "nk"} THEN 0 ELSE items[j][2]])

\* a root (cell 1) whose subkeys list is cell `list`; an Index Root (cell 2)
\* of the given items (cells 3..); the Key Nodes of the Leafs in the order of
\* their names; a Hash Leaf of one Key Node for a nested Index Root to refer
\* to
IndexRootIterHive(list, items) ==
    LET G == Len(items)
        K == KeysBefore(items, G + 1)
    IN  << Nk(RootName, TRUE, list, 0, 0),
           SubkeysListCell("ri", G, [g \in 1..G |-> 2 + g]) >>
        \o [g \in 1..G |->
               IF items[g][1] = "nk" THEN Nk(KeyName(K + 2), TRUE, 0, 0, 0)
               ELSE IF items[g][1] = "ri"
               THEN SubkeysListCell("ri", 1, << 2 + G + K + 1 >>)
               ELSE SubkeysListCell(items[g][1], items[g][2],
                                    [i \in 1..items[g][2] |->
                                        2 + G + KeysBefore(items, g) + i])]
        \o [i \in 1..K |-> Nk(KeyName(i), TRUE, 0, 0, 0)]
        \o << SubkeysListCell("lh", 1, << 2 + G + K + 2 >>),
              Nk(KeyName(K + 1), TRUE, 0, 0, 0) >>

IndexRootIterHives ==
    UNION {{IndexRootIterHive(2, items)}
           \cup {IndexRootIterHive(2 + g, items) :
                    g \in {g \in 1..Len(items) : items[g][1] = "ri"}} :
           items \in SeqsUpTo(IndexRootItemKinds, MaxItems) \ {<< >>}}

IterHives ==
    {IterHive(leaf_kind, kinds) :
        leaf_kind \in LeafKinds, kinds \in SeqsUpTo(ItemKinds, MaxItems)}
    \cup IndexRootIterHives

InitIter ==
    /\ \E cells \in IterHives : HiveOf(cells)
    /\ overflow_checks = FALSE
    /\ call = [op |-> "init"]
    /\ res = NoCall
    /\ big_data_slices = NoCall
    /\ log = << >>
    /\ stack = << >>
    /\ iterator = NoCall

\* hive.root_key_node()?.subkeys(): the iterator over the subkeys
Subkeys ==
    /\ call.op = "init"
    /\ call' = [op |-> "subkeys"]
    /\ res' = Try(root_key_node, LAMBDA key_node : KeyNode_subkeys(key_node))
    /\ iterator' = IF IsOk(res') THEN [kind |-> "SubKeyNodes", iter |-> res'.val] ELSE NoCall
    /\ UNCHANGED << base_block, data, overflow_checks, big_data_slices, log, stack >>

\* hive.root_key_node()?.values(): the iterator over the values
Values ==
    /\ call.op = "init"
    /\ call' = [op |-> "values"]
    /\ res' = Try(root_key_node, LAMBDA key_node : values(key_node))
    /\ iterator' = IF IsOk(res') THEN [kind |-> "KeyValues", iter |-> res'.val] ELSE NoCall
    /\ UNCHANGED << base_block, data, overflow_checks, big_data_slices, log, stack >>

\* SubkeysList::new on the subkeys list of the root, then iter()
Iter ==
    /\ call.op = "init"
    /\ call' = [op |-> "iter"]
    /\ res' = Try(root_key_node, LAMBDA key_node :
              Try(subkeys_cell_range(key_node), LAMBDA cell_range :
              Try(SubkeysList_new_internal(cell_range, TRUE), LAMBDA subkeys_list :
                  SubkeysList_iter(subkeys_list))))
    /\ iterator' = IF IsOk(res') THEN [kind |-> "SubkeyIter", iter |-> res'.val] ELSE NoCall
    /\ UNCHANGED << base_block, data, overflow_checks, big_data_slices, log, stack >>

\* iterator.next(); a panic ends the program
IteratorNext ==
    /\ iterator # NoCall
    /\ res.kind # "Panic"
    /\ Len(log) < MaxCalls
    /\ \E step \in {CASE iterator.kind = "KeyValues" -> KeyValues_Iterator_next(iterator.iter)
                      [] iterator.kind = "SubkeyIter" -> SubkeyIter_next(iterator.iter)
                      [] OTHER -> SubKeyNodes_next(iterator.iter)} :
          /\ iterator' = [iterator EXCEPT !.iter = step.iter]
          /\ res' = step.item
          /\ log' = Append(log, [op |-> "next", item |-> step.item])
    /\ UNCHANGED << base_block, data, overflow_checks, call, big_data_slices, stack >>

NextIter ==
    \/ Subkeys
    \/ Values
    \/ Iter
    \/ IteratorNext
    \/ \E name \in QueryNames : Subkey(name)

SpecIter == InitIter /\ [][NextIter]_vars

----------------------------------------------------------------------------
(* Names and queries for the comparisons of NtHiveString.                   *)

\* the most characters (bytes, code units) of a name or a query
MaxNameLen == 2

\* A a, A-umlaut a-umlaut, the two bytes of a-umlaut in UTF-8
StoredBytes == {65, 97, 196, 228, 195, 164}

\* A a, a-umlaut, fullwidth A a, the surrogates of Deseret H h (U+10410 is
\* D801 DC10, U+10438 is D801 DC38)
StoredUnits == {65, 97, 228, 65313, 65345, 55297, 56336, 56376}

\* A a, A-umlaut a-umlaut, fullwidth A a, Deseret H h
QueryChars == {65, 97, 196, 228, 65313, 65345, 66576, 66616}

\* the bytes of a sequence of 16-bit code units, little endian
UnitsLE(units) ==
    [i \in 1..(2 * Len(units)) |->
        IF i % 2 = 1 THEN units[(i + 1) \div 2] % 256 ELSE units[i \div 2] \div 256]

StoredNames ==
    {Ascii(b) : b \in SeqsUpTo(StoredBytes, MaxNameLen)}
    \cup {Utf16LE(UnitsLE(u)) : u \in SeqsUpTo(StoredUnits, MaxNameLen)}

InitName ==
    /\ base_block = << >>
    /\ data = [len |-> 0, bytes |-> << >>]
    /\ overflow_checks = FALSE
    /\ \E name \in StoredNames, query \in SeqsUpTo(QueryChars, MaxNameLen) :
          call = [op |-> "init", name |-> name, query |-> query]
    /\ res = NoCall
    /\ big_data_slices = NoCall
    /\ log = << >>
    /\ stack = << >>
    /\ iterator = NoCall

\* name.eq_ignore_ascii_case(query)
EqIgnoreAsciiCase ==
    /\ call.op = "init"
    /\ call' = [call EXCEPT !.op = "eq_ignore_ascii_case"]
    /\ res' = Ok(eq_ignore_ascii_case(call.name, call.query))
    /\ UNCHANGED << base_block, data, overflow_checks, big_data_slices, log, stack, iterator >>

\* name == query
EqStr ==
    /\ call.op = "init"
    /\ call' = [call EXCEPT !.op = "eq_str"]
    /\ res' = Ok(eq_str(call.name, call.query))
    /\ UNCHANGED << base_block, data, overflow_checks, big_data_slices, log, stack, iterator >>

NextName == EqIgnoreAsciiCase \/ EqStr

SpecName == InitName /\ [][NextName]_vars

----------------------------------------------------------------------------
(* Hives for Big Data: a root with one Key Value whose data is spread over  *)
(* segments, and the calls on the iterator data() returns.                  *)


\* the arguments of nth
NthArgs == {0, 2, USIZE_MAX}

\* data sizes of one, two and three segments: a segment and one byte, two
\* full segments, two segments and one byte
BigDataSizes ==
    {BIG_DATA_SEGMENT_SIZE + 1, 2 * BIG_DATA_SEGMENT_SIZE, 2 * BIG_DATA_SEGMENT_SIZE + 1}

SegmentsNeeded(n) == (n + BIG_DATA_SEGMENT_SIZE - 1) \div BIG_DATA_SEGMENT_SIZE

\* well-formed Big Data values, whose header declares the segments needed or
\* more; and values one of whose segments is a cell too short, or whose
\* header has another signature
BigDataLayouts ==
    {<< VkData(LE32(n), << >>, 4, RegSZ) >> \o BigDataCells("db", declared, SegmentsNeeded(n)) :
        n \in BigDataSizes, declared \in {2, MaxSegments}}
    \cup {<< VkData(LE32(n), << >>, 4, RegSZ),
             Db("db", 2, 5), ValuesListCell(<< 6, 7 >>),
             Blob(<< >>, IF short = 1 THEN 8 ELSE BIG_DATA_SEGMENT_SIZE),
             Blob(<< >>, IF short = 2 THEN 8 ELSE BIG_DATA_SEGMENT_SIZE) >> :
            n \in BigDataSizes, short \in {1, 2}}
    \cup {<< VkData(LE32(BIG_DATA_SEGMENT_SIZE + 1), << >>, 4, RegSZ) >>
          \o BigDataCells("nk", 2, 2)}

InitBigData ==
    /\ \E layout \in BigDataLayouts : LongHiveOf(DataHive(layout, RegSZ))
    /\ overflow_checks = FALSE
    /\ call = [op |-> "init"]
    /\ res = NoCall
    /\ big_data_slices = NoCall
    /\ log = << >>
    /\ stack = << >>
    /\ iterator = NoCall

\* iter.next()
Next ==
    /\ big_data_slices # NoCall
    /\ res.kind # "Panic"
    /\ Len(log) < MaxCalls
    /\ \E step \in {BigDataSlices_next(big_data_slices)} :
          /\ big_data_slices' = step.iter
          /\ res' = step.item
          /\ log' = Append(log, [op |-> "next", item |-> step.item])
    /\ call' = [op |-> "next"]
    /\ UNCHANGED << base_block, data, overflow_checks, stack, iterator >>

\* iter.nth(n)
Nth(n) ==
    /\ big_data_slices # NoCall
    /\ res.kind # "Panic"
    /\ Len(log) < MaxCalls
    /\ \E step \in {BigDataSlices_nth(big_data_slices, n)} :
          /\ big_data_slices' = step.iter
          /\ res' = step.item
          /\ log' = Append(log, [op |-> "nth", item |-> step.item])
    /\ call' = [op |-> "nth", n |-> n]
    /\ UNCHANGED << base_block, data, overflow_checks, stack, iterator >>

NextBigData == Data \/ Next \/ \E n \in NthArgs : Nth(n)

SpecBigData == InitBigData /\ [][NextBigData]_vars

(* C1: Hive::new returns Ok exactly when the eight base-block checks hold,  *)
(* and otherwise the error of the first failing check, in the order         *)
(* signature, sequence numbers, version, file type, file format, data size, *)
(* clustering factor, checksum.                                             *)

\* the eight checks, read off the fields of the base block
CheckHolds(i) ==
    CASE i = 1 -> BBField(OFF_signature) = Regf
      [] i = 2 -> BBField(OFF_primary_sequence_number) = BBField(OFF_secondary_sequence_number)
      [] i = 3 -> U32Of(BBField(OFF_major_version)) = 1 /\ U32Of(BBField(OFF_minor_version)) >= 3
      [] i = 4 -> U32Of(BBField(OFF_file_type)) = 0
      [] i = 5 -> U32Of(BBField(OFF_file_format)) = 1
      [] i = 6 -> /\ U32Of(BBField(OFF_data_size)) % 4096 = 0
                  /\ U32Of(BBField(OFF_data_size)) <= DataLen
      [] i = 7 -> U32Of(BBField(OFF_clustering_factor)) = 1
      [] i = 8 -> BBField(OFF_checksum) = calculated_checksum(base_block)

CheckErrors(i) ==
    CASE i = 1 -> {"InvalidFourByteSignature"}
      [] i = 2 -> {"SequenceNumberMismatch"}
      [] i = 3 -> {"UnsupportedVersion"}
      [] i = 4 -> {"UnsupportedFileType"}
      [] i = 5 -> {"UnsupportedFileFormat"}
      [] i = 6 -> {"InvalidSizeFieldAlignment", "InvalidSizeField"}
      [] i = 7 -> {"UnsupportedClusteringFactor"}
      [] i = 8 -> {"InvalidChecksum"}

FailingChecks == {i \in 1..8 : ~CheckHolds(i)}

FirstFailing == CHOOSE i \in FailingChecks : \A j \in FailingChecks : i <= j

C1_FirstFailingCheck ==
    call.op = "new" =>
        IF FailingChecks = {} THEN res.kind = "Ok"
        ELSE res.kind = "Err" /\ res.err.name \in CheckErrors(FirstFailing)

\* C1 with the signature check left out of the claim: what the code does
\* once the signature is right
C1_AfterSignature ==
    (call.op = "new" /\ CheckHolds(1)) =>
        IF FailingChecks = {} THEN res.kind = "Ok"
        ELSE res.kind = "Err" /\ res.err.name \in CheckErrors(FirstFailing)

(* C2: on a buffer whose first four bytes are not 'regf', Hive::new and     *)
(* Hive::validate return InvalidFourByteSignature with offset 0, expected   *)
(* 'regf' and the actual four bytes, as an error value and without a panic. *)
C2_SignatureError ==
    (call.op \in {"new", "validate"} /\ BBField(OFF_signature) # Regf) =>
        res = Err([name |-> "InvalidFourByteSignature", offset |-> 0,
                   expected |-> Regf, actual |-> BBField(OFF_signature)])


\* the offset and the size field of the cell a cell_range call was made on
CallOffset == U32Of(call.offset)

CallSize == I32Of(DataSlice(CallOffset, 4))

CellCall == call.op = "cell_range" /\ call.offset # SentinelBytes

(* C3: when cell_range_from_data_offset(o) succeeds, the range is the body  *)
(* of the cell at o: it starts at o+4 and ends at o+|size|, |size| counting *)
(* the 4-byte size field, and lies inside [0, cell_area_len).               *)
C3_CellBodyRange ==
    (CellCall /\ res.kind = "Ok") =>
        /\ CallSize # I32_MIN
        /\ res.val = Range(CallOffset + 4,
                           CallOffset + (IF CallSize < 0 THEN 0 - CallSize ELSE CallSize))
        /\ 0 <= res.val.start
        /\ res.val.end <= DataLen

(* C4: when cell_range_from_data_offset(o) succeeds, the size field is      *)
(* negative, |size| is at least 8 and a multiple of 8, and the cell         *)
(* [o, o+|size|) ends within the cell area; a size field of 0 is never      *)
(* accepted.                                                                *)
C4_AcceptedCellSize ==
    (CellCall /\ res.kind = "Ok") =>
        /\ CallSize < 0
        /\ CallSize # I32_MIN
        /\ (0 - CallSize) >= 8
        /\ (0 - CallSize) % 8 = 0
        /\ CallOffset + (0 - CallSize) <= DataLen

(* C5: cell_range_from_data_offset(o) fails with one error per cause, in    *)
(* this order: fewer than 4 bytes at o -> InvalidHeaderSize; size > 0 ->    *)
(* UnallocatedCell; |size| not a multiple of 8 -> InvalidSizeFieldAlignment;*)
(* body past the end of the cell area -> InvalidSizeField; else it succeeds.*)
C5_ClaimedOutcome ==
    IF CallOffset + 4 > DataLen THEN "InvalidHeaderSize"
    ELSE IF CallSize > 0 THEN "UnallocatedCell"
    ELSE IF CallSize = I32_MIN THEN "InvalidSizeField"
    ELSE IF (0 - CallSize) % 8 # 0 THEN "InvalidSizeFieldAlignment"
    ELSE IF CallOffset + (0 - CallSize) > DataLen THEN "InvalidSizeField"
    ELSE "Ok"

C5_ErrorPerCause ==
    CellCall =>
        IF C5_ClaimedOutcome = "Ok" THEN res.kind = "Ok"
        ELSE res.kind = "Err" /\ res.err.name = C5_ClaimedOutcome


----------------------------------------------------------------------------
(* What a hive holds, read off its bytes item by item (no search).          *)

\* the subkeys list of the root Key Node
RootSubkeys ==
    Try(root_key_node, LAMBDA key_node :
    Try(subkeys_cell_range(key_node), LAMBDA cell_range : SubKeyNodes_new(cell_range)))

\* the Key Nodes and names of the items of a Leaf, in stored order
LeafItems(it) ==
    [i \in 1..LeafItemRanges_len(it) |->
        leaf_item_name(LeafItemRanges_nth(it, i - 1).val)]

AllResolve(items) == \A i \in 1..Len(items) : IsOk(items[i])

NameLess(a, b) == CmpSeq(Fold(CodePoints(a)), Fold(CodePoints(b))) = "Less"

StrictlySorted(items) ==
    \A i \in 1..(Len(items) - 1) : NameLess(items[i].val.name, items[i + 1].val.name)

Matches(items, name) == {i \in 1..Len(items) : NameEq(items[i].val.name, name)}

\* the answer of a lookup among the items: the node of that name, or none
Lookup(items, name) ==
    IF Matches(items, name) = {} THEN None
    ELSE Ok(items[CHOOSE i \in Matches(items, name) : TRUE].val.node)

\* the items of the root's Leaf, when its subkeys list is a Leaf
RootLeaf ==
    Try(RootSubkeys, LAMBDA subkeys :
        IF subkeys.variant = "Leaf" THEN Ok(LeafItems(subkeys.iter)) ELSE None)

SortedLeaf(leaf) == IsOk(leaf) /\ AllResolve(leaf.val) /\ StrictlySorted(leaf.val)

(* C7: for a Key Node whose subkeys list is a single Leaf (lf, lh or li)    *)
(* with items strictly sorted by name and all resolving to Key Nodes,       *)
(* subkey(name) returns the node whose name equals name when there is one,  *)
(* and none - never an error - when there is not.                           *)
C7_LeafLookup ==
    call.op = "subkey" =>
        \A leaf \in {RootLeaf} :
            SortedLeaf(leaf) =>
                /\ res = Lookup(leaf.val, call.name)
                /\ IsOk(res) => NameEq(KeyNode_name(res.val).val, call.name)
                /\ res.kind \in {"Ok", "None"}

\* a Leaf of three or more keys, whose last key is found under a name
\* written in the other case
C7_Witness ==
    /\ call.op = "subkey"
    /\ IsOk(res)
    /\ \E leaf \in {RootLeaf} :
          /\ SortedLeaf(leaf)
          /\ Len(leaf.val) >= 3
          /\ res.val = leaf.val[Len(leaf.val)].val.node
          /\ CodePoints(leaf.val[Len(leaf.val)].val.name) # call.name

\* the items of the Leafs the root's Index Root refers to, Leaf by Leaf,
\* when its subkeys list is an Index Root
RootIndexRoot ==
    Try(RootSubkeys, LAMBDA subkeys :
        IF subkeys.variant # "IndexRoot" THEN None
        ELSE Ok([g \in 1..IndexRootItemRanges_len(subkeys.iter) |->
                    Try(from_index_root_item_range(
                            IndexRootItemRanges_nth(subkeys.iter, g - 1).val),
                        LAMBDA leaf_item_ranges : Ok(LeafItems(leaf_item_ranges)))]))

RECURSIVE ConcatItems(_, _)
ConcatItems(leafs, g) ==
    IF g > Len(leafs) THEN << >>
    ELSE leafs[g].val \o ConcatItems(leafs, g + 1)

\* every Leaf is non-empty and sorted, and the Leafs follow each other in
\* ascending order: last_name(L_g) < first_name(L_g+1)
SortedIndexRoot(root) ==
    /\ IsOk(root)
    /\ \A g \in 1..Len(root.val) :
          /\ SortedLeaf(root.val[g])
          /\ Len(root.val[g].val) >= 1
    /\ \A g \in 1..(Len(root.val) - 1) :
          NameLess(root.val[g].val[Len(root.val[g].val)].val.name,
                   root.val[g + 1].val[1].val.name)

(* C8: for an Index Root whose Leafs are non-empty, sorted and in ascending *)
(* order, the two-level search returns what a search over the concatenation *)
(* of all Leafs returns: the node of the requested name if a Leaf has it,   *)
(* otherwise none.                                                          *)
C8_IndexRootLookup ==
    call.op = "subkey" =>
        \A root \in {RootIndexRoot} :
            SortedIndexRoot(root) => res = Lookup(ConcatItems(root.val, 1), call.name)

\* an Index Root of two or more Leafs; the name is found inside a later
\* Leaf, at neither its first nor its last item
C8_Witness ==
    /\ call.op = "subkey"
    /\ IsOk(res)
    /\ \E root \in {RootIndexRoot} :
          /\ SortedIndexRoot(root)
          /\ \E g \in 2..Len(root.val) :
                \E i \in 2..(Len(root.val[g].val) - 1) :
                    root.val[g].val[i].val.node = res.val

\* the non-empty components of a path: its maximal runs of characters
\* other than the backslash
RECURSIVE Components(_)
Components(path) ==
    IF path = << >> THEN << >>
    ELSE IF path[1] = Backslash THEN Components(Tail(path))
    ELSE LET n == CHOOSE n \in 1..Len(path) :
                     /\ \A j \in 1..n : path[j] # Backslash
                     /\ n = Len(path) \/ path[n + 1] = Backslash
         IN  << SubSeq(path, 1, n) >> \o Components(SubSeq(path, n + 1, Len(path)))

\* subkey() chained over a list of names, ending at the first one that
\* does not return a node
RECURSIVE Chain(_, _)
Chain(node, names) ==
    IF names = << >> THEN Ok(node)
    ELSE Try(subkey(node, Head(names)), LAMBDA found : Chain(found, Tail(names)))

(* C9: subpath(path) equals subkey() chained over the non-empty components  *)
(* of path split on backslash (so leading, trailing and duplicate           *)
(* backslashes change nothing); it is none as soon as one component is not  *)
(* found; a path without a non-empty component returns the starting node.   *)
C9_SubpathChain ==
    (call.op = "subpath" /\ IsOk(root_key_node)) =>
        /\ res = Chain(root_key_node.val, Components(call.path))
        /\ Components(call.path) = << >> => res = Ok(root_key_node.val)
        /\ (\E n \in 1..Len(Components(call.path)) :
               Chain(root_key_node.val, SubSeq(Components(call.path), 1, n)) = None)
           => res = None

\* a path of two names with a doubled backslash between them and one more
\* backslash, resolved to a key two levels below the root
C9_Witness ==
    /\ call.op = "subpath"
    /\ Len(Components(call.path)) = 2
    /\ Len(call.path) = 4
    /\ IsOk(res)
    /\ res.val # root_key_node.val

\* the items of the root's values list, read one by one in stored order
RootValues == values(root_key_node.val)

ValueItems ==
    IF ~IsOk(RootValues) THEN << >>
    ELSE [i \in 1..(RangeLen(RootValues.val.items_range) \div KEY_VALUES_LIST_ITEM_SIZE) |->
            KeyValues_next([items_range |->
                Range(RootValues.val.items_range.start + KEY_VALUES_LIST_ITEM_SIZE * (i - 1),
                      RootValues.val.items_range.end)])]

HasReadableName(item) == IsOk(item) /\ IsOk(KeyValue_name(item.val))

\* the items that are Key Values named `name`
NameEqual(name) ==
    {i \in 1..Len(ValueItems) :
        /\ HasReadableName(ValueItems[i])
        /\ NameEq(KeyValue_name(ValueItems[i].val).val, name)}

FirstNameEqual(name) == CHOOSE i \in NameEqual(name) : \A j \in NameEqual(name) : i <= j

ValueCall ==
    /\ call.op = "value"
    /\ IsOk(root_key_node)
    /\ RootValues.kind \in {"Ok", "None"}

(* C10: value(name) returns the first Key Value of the values list, in      *)
(* stored order, whose name equals name, and none when no Key Value of the  *)
(* list has that name.                                                      *)
C10_FirstNameEqual ==
    ValueCall =>
        IF NameEqual(call.name) = {} THEN res = None
        ELSE res = ValueItems[FirstNameEqual(call.name)]

\* C10 on the lists all of whose items are Key Values with a readable name:
\* there the code does what the claim says
C10_ReadableList ==
    (ValueCall /\ \A i \in 1..Len(ValueItems) : HasReadableName(ValueItems[i])) =>
        IF NameEqual(call.name) = {} THEN res = None
        ELSE res = ValueItems[FirstNameEqual(call.name)]

(* C6: the read operations root_key_node, subkey, subpath and value return  *)
(* a value, none or an error and never panic, whatever the hive holds: a    *)
(* stored offset equal to the sentinel 0xFFFFFFFF, a size field of -2^31.   *)
C6_NoPanic ==
    call.op \in {"root_key_node", "subkey", "subpath", "value"} => res.kind # "Panic"

----------------------------------------------------------------------------
(* The data of the first Key Value of the root.                             *)

\* the cell a stored offset refers to, as the format defines it: the size
\* field at the offset and the body behind it, |size| bytes in all
BodyOfCell(ob) ==
    Range(U32Of(ob) + CELL_HEADER_SIZE,
          U32Of(ob) + AbsUsize(I32Of(DataSlice(U32Of(ob), 4))))

\* what the claim says data() returns for a Key Value whose data-offset field
\* (when it is an offset) resolves to a cell
C11_Claimed(key_value, r) ==
    LET h == key_value.header_range.start
        size == KeyValue_data_size(key_value)
        ob == DataSlice(h + KV_data_offset, 4)
    IN  IF data_stored_in_data_offset(key_value)
        THEN IF size > 4 THEN r.kind = "Err" /\ r.err.name = "InvalidSizeField"
             ELSE r = Ok(Small(Range(h + KV_data_offset, h + KV_data_offset + size)))
        ELSE IsOk(cell_range_from_data_offset(ob)) =>
             IF size <= BIG_DATA_SEGMENT_SIZE
             THEN IF RangeLen(BodyOfCell(ob)) < size
                  THEN r.kind = "Err" /\ r.err.name = "InvalidDataSize"
                  ELSE r = Ok(Small(Range(BodyOfCell(ob).start, BodyOfCell(ob).start + size)))
             ELSE IsOk(r) => r.val.variant = "Big"

(* C11: data() dispatches on the data-size field only: with the high bit    *)
(* set it returns the slice of size & 0x7FFFFFFF bytes of the data-offset   *)
(* field, or InvalidSizeField if that size exceeds 4; with the high bit     *)
(* clear and a size of at most 16344 it returns the slice of exactly size   *)
(* bytes from the start of the referenced cell, or InvalidDataSize if the   *)
(* cell is shorter; with the high bit clear and a larger size it returns a  *)
(* Big Data iterator.                                                       *)
C11_DataDispatch ==
    call.op = "data" =>
        \A key_value \in {FirstValue} : IsOk(key_value) => C11_Claimed(key_value.val, res)

\* the part of C11 the code keeps: which of the three ways is taken depends
\* on the data-size field only, with the thresholds as claimed
C11_Thresholds ==
    (call.op = "data" /\ IsOk(res)) =>
        \A key_value \in {FirstValue} :
            /\ res.val.variant = "Big" <=>
                  /\ ~data_stored_in_data_offset(key_value.val)
                  /\ KeyValue_data_size(key_value.val) > BIG_DATA_SEGMENT_SIZE
            /\ res.val.variant = "Small" =>
                  RangeLen(res.val.range) = KeyValue_data_size(key_value.val)

----------------------------------------------------------------------------
(* Big Data.                                                                *)

\* a stored offset that resolves to a cell
Resolves(ob) == ob # SentinelBytes /\ IsOk(cell_range_from_data_offset(ob))

\* the fields of the Big Data header a Key Value refers to
DbHeader(key_value) ==
    BodyOfCell(DataSlice(key_value.header_range.start + KV_data_offset, 4)).start

DeclaredSegments(key_value) == U16Of(DataSlice(DbHeader(key_value) + BD_segment_count, 2))

SegmentList(key_value) == DataSlice(DbHeader(key_value) + BD_segment_list_offset, 4)

\* the stored offset of segment i (1-based)
SegmentOffset(key_value, i) ==
    DataSlice(BodyOfCell(SegmentList(key_value)).start + (i - 1) * BIG_DATA_LIST_ITEM_SIZE, 4)

\* the bytes segment i of n holds of data of the given size
SegmentLen(size, i) == Min(BIG_DATA_SEGMENT_SIZE, size - (i - 1) * BIG_DATA_SEGMENT_SIZE)

\* a value of more than 16344 bytes whose db header, segment list and segment
\* cells are well-formed: the header declares enough segments, the list has
\* an item for each declared segment, and each segment needed is a cell that
\* holds its share of the data
WellFormedBigData(key_value) ==
    /\ ~data_stored_in_data_offset(key_value)
    /\ KeyValue_data_size(key_value) > BIG_DATA_SEGMENT_SIZE
    /\ Resolves(DataSlice(key_value.header_range.start + KV_data_offset, 4))
    /\ RangeLen(BodyOfCell(DataSlice(key_value.header_range.start + KV_data_offset, 4)))
          >= BIG_DATA_HEADER_SIZE
    /\ DataSlice(DbHeader(key_value), 2) = SigOf("db")
    /\ DeclaredSegments(key_value) >= SegmentsNeeded(KeyValue_data_size(key_value))
    /\ Resolves(SegmentList(key_value))
    /\ RangeLen(BodyOfCell(SegmentList(key_value)))
          >= DeclaredSegments(key_value) * BIG_DATA_LIST_ITEM_SIZE
    /\ \A i \in 1..SegmentsNeeded(KeyValue_data_size(key_value)) :
          /\ Resolves(SegmentOffset(key_value, i))
          /\ RangeLen(BodyOfCell(SegmentOffset(key_value, i)))
                >= SegmentLen(KeyValue_data_size(key_value), i)

\* the iterator was driven by next() alone, up to the first none
Exhausted ==
    /\ big_data_slices # NoCall
    /\ log # << >>
    /\ \A i \in 1..Len(log) : log[i].op = "next"
    /\ \A i \in 1..(Len(log) - 1) : log[i].item.kind # "None"
    /\ log[Len(log)].item.kind = "None"

(* C12: for a value of N > 16344 bytes whose db header, segment list and    *)
(* segment cells are well-formed, iterating BigDataSlices to exhaustion     *)
(* yields exactly ceil(N/16344) segments, each of 16344 bytes except the    *)
(* last, which holds the remainder; together they have exactly N bytes,     *)
(* also when the header declares more segments than are needed.             *)
C12_BigDataRoundTrip ==
    Exhausted =>
        \A key_value \in {FirstValue} :
            (IsOk(key_value) /\ WellFormedBigData(key_value.val)) =>
                \A size \in {KeyValue_data_size(key_value.val)} :
                    /\ Len(log) - 1 = SegmentsNeeded(size)
                    /\ \A i \in 1..(Len(log) - 1) :
                          /\ IsOk(log[i].item)
                          /\ log[i].item.val.start
                                = BodyOfCell(SegmentOffset(key_value.val, i)).start
                          /\ RangeLen(log[i].item.val) = SegmentLen(size, i)
                    /\ SumSeq([i \in 1..(Len(log) - 1) |-> RangeLen(log[i].item.val)]) = size

\* a value of two full segments whose header declares more segments than
\* that, iterated to exhaustion
C12_Witness ==
    /\ Exhausted
    /\ Len(log) = 3
    /\ \E key_value \in {FirstValue} :
          /\ IsOk(key_value)
          /\ WellFormedBigData(key_value.val)
          /\ DeclaredSegments(key_value.val) > 2

(* C13: BigDataSlices is fused: after any sequence of next() and nth()      *)
(* calls, once a call has returned none every later next() returns none as  *)
(* well, also when earlier calls yielded errors.                            *)
C13_Fused ==
    \A i \in 1..Len(log) : \A j \in (i + 1)..Len(log) :
        (log[i].item.kind = "None" /\ log[j].op = "next") => log[j].item.kind = "None"

\* the part of C13 the code keeps: once next() has returned none, every later
\* call returns none
C13_FusedAfterNext ==
    \A i \in 1..Len(log) : \A j \in (i + 1)..Len(log) :
        (log[i].item.kind = "None" /\ log[i].op = "next") => log[j].item.kind = "None"

----------------------------------------------------------------------------
(* The typed decoders.                                                      *)

\* the data types a decoder expects
ExpectedTypes(op) ==
    CASE op = "string_data" -> {RegSZ, RegExpandSZ}
      [] op = "multi_string_data" -> {RegMultiSZ}
      [] op = "dword_data" -> {RegDWord, RegDWordBigEndian}
      [] op = "qword_data" -> {RegQWord}

\* a decoder was called on a Key Value of a known data type outside the set
\* the decoder expects
OtherType(ops) ==
    /\ call.op \in ops
    /\ IsOk(FirstValue)
    /\ IsOk(KeyValue_data_type(FirstValue.val))
    /\ KeyValue_data_type(FirstValue.val).val \notin ExpectedTypes(call.op)

(* C14: every typed decoder (string_data, multi_string_data, dword_data,    *)
(* qword_data) checks the data type before it looks at the data: on a value *)
(* of a data type outside its expected set it returns                       *)
(* InvalidKeyValueDataType(expected set, actual type), whatever the data    *)
(* size and wherever the data is stored.                                    *)
C14_TypeCheckedFirst ==
    OtherType({"string_data", "multi_string_data", "dword_data", "qword_data"}) =>
        res = InvalidKeyValueDataType(ExpectedTypes(call.op),
                                      KeyValue_data_type(FirstValue.val).val)

\* the part of C14 the code keeps: the two string decoders
C14_StringDecoders ==
    OtherType({"string_data", "multi_string_data"}) =>
        res = InvalidKeyValueDataType(ExpectedTypes(call.op),
                                      KeyValue_data_type(FirstValue.val).val)

\* the data of the first Key Value, for a decoder that was called on a value
\* of a data type it expects
DecodedData(op) ==
    IF call.op = op /\ IsOk(FirstValue)
       /\ IsOk(KeyValue_data_type(FirstValue.val))
       /\ KeyValue_data_type(FirstValue.val).val \in ExpectedTypes(op)
    THEN KeyValue_data(FirstValue.val)
    ELSE None

\* what the claim says dword_data (width 4) and qword_data (width 8) return
\* for data of the expected type: the number for data of exactly width
\* bytes, InvalidDataSize for any other length and for Big Data
C15_Claimed(key_value_data, width, number) ==
    IF key_value_data.variant = "Small" /\ RangeLen(key_value_data.range) = width
    THEN res = Ok(number)
    ELSE res.kind = "Err" /\ res.err.name = "InvalidDataSize"

\* the number the claim names for the 4 bytes of a DWORD value
ClaimedDword(key_value, bytes) ==
    IF KeyValue_data_type(key_value).val = RegDWord
    THEN bytes[1] + 256 * bytes[2] + 65536 * bytes[3] + 16777216 * bytes[4]
    ELSE bytes[4] + 256 * bytes[3] + 65536 * bytes[2] + 16777216 * bytes[1]

(* C15: dword_data returns the 4 data bytes read as a little-endian u32 for *)
(* DWord and as a big-endian u32 for DWordBE; qword_data returns the 8 data *)
(* bytes as a little-endian u64; each returns InvalidDataSize when the data *)
(* is not exactly 4 (8) bytes long or is stored as Big Data.                *)
C15_DwordQword ==
    /\ \A d \in {DecodedData("dword_data")} :
          IsOk(d) => C15_Claimed(d.val, 4,
                                 ClaimedDword(FirstValue.val,
                                              DataSlice(d.val.range.start, 4)))
    /\ \A d \in {DecodedData("qword_data")} :
          IsOk(d) => C15_Claimed(d.val, 8,
                                 [lo |-> U32Of(DataSlice(d.val.range.start, 4)),
                                  hi |-> U32Of(DataSlice(d.val.range.start + 4, 4))])

\* the part of C15 the code keeps: the numbers returned for data of the right
\* length, the little-endian 42 under DWordBE read as 42 * 2^24 among them
C15_Numbers ==
    /\ \A d \in {DecodedData("dword_data")} :
          (IsOk(d) /\ d.val.variant = "Small" /\ RangeLen(d.val.range) = 4) =>
              /\ res = Ok(ClaimedDword(FirstValue.val, DataSlice(d.val.range.start, 4)))
              /\ (KeyValue_data_type(FirstValue.val).val = RegDWordBigEndian
                  /\ DataSlice(d.val.range.start, 4) = << 42, 0, 0, 0 >>)
                 => res = Ok(704643072)
    /\ \A d \in {DecodedData("qword_data")} :
          (IsOk(d) /\ d.val.variant = "Small" /\ RangeLen(d.val.range) = 8) =>
              res = Ok([lo |-> U32Of(DataSlice(d.val.range.start, 4)),
                        hi |-> U32Of(DataSlice(d.val.range.start + 4, 4))])

\* the NUL-separated strings of a slice, decoded as UTF-16LE from chunk k on,
\* up to the first empty string; a last string that no NUL ends is one of
\* them
RECURSIVE ClaimedStrings(_, _, _)
ClaimedStrings(range, k, string) ==
    IF k >= Units(range) THEN (IF string = << >> THEN << >> ELSE << string >>)
    ELSE IF DecodedAt(range, k).c = 0
    THEN IF string = << >> THEN << >>
         ELSE << string >> \o ClaimedStrings(range, k + 1, << >>)
    ELSE ClaimedStrings(range, k + DecodedAt(range, k).units,
                        Append(string, DecodedAt(range, k).c))

(* C16: multi_string_data on a MultiSZ value returns, in order, the         *)
(* NUL-separated strings of the data up to (not including) the first empty  *)
(* string; data that does not end with NUL characters is accepted, and its  *)
(* last, unterminated string is part of the result.                         *)
C16_MultiStrings ==
    \A d \in {DecodedData("multi_string_data")} :
        (IsOk(d) /\ d.val.variant = "Small") =>
            res = Ok(ClaimedStrings(d.val.range, 0, << >>))

\* the part of C16 the code keeps: data whose last character is NUL
C16_TerminatedStrings ==
    \A d \in {DecodedData("multi_string_data")} :
        (IsOk(d) /\ d.val.variant = "Small"
         /\ (Units(d.val.range) = 0 \/ Unit(d.val.range, Units(d.val.range) - 1) = 0)) =>
            res = Ok(ClaimedStrings(d.val.range, 0, << >>))

----------------------------------------------------------------------------
(* The clearing of the volatile subkey counts.                              *)

\* a call of clear_volatile_subkeys has returned
Returned == call.op = "clear_volatile_subkeys" /\ res # Running

\* the volatile subkey count of a Key Node, as its four bytes
VolatileSubkeyCount(key_node) ==
    DataSlice(key_node.header_range.start + KN_volatile_subkey_count, 4)

(* C17: after clear_volatile_subkeys has returned Ok, the volatile subkey   *)
(* count of every Key Node that is reachable from the root through subkeys  *)
(* lists (lf, lh, li or ri, at any depth) is zero.                          *)
C17_AllCleared ==
    (Returned /\ IsOk(res)) =>
        \A reached \in {HivePreOrder} :
            \A k \in 1..Len(reached) :
                IsOk(reached[k]) => VolatileSubkeyCount(reached[k].val) = LE32(0)

\* a first call has returned Ok on the tree of six Key Nodes whose root has
\* an Index Root: all six counts were other than zero and have been written
C17_Witness ==
    /\ Returned /\ IsOk(res) /\ call.run = 1
    /\ Len(log) = 6
    /\ Len(HivePreOrder) = 6
    /\ DataSlice(root_key_node.val.header_range.end - KEY_NODE_HEADER_SIZE
                 + CellSize(NkVolatile(<< 82 >>, 2, 1)), 2) = SigOf("ri")
    /\ \A k \in 1..6 : call.pre_order[k].val.header_range.start = log[k]
    /\ data # call.before.data

\* the cell at a data offset resolves and holds a Key Node header
KeyNodeAt(data_offset) ==
    \A cell_range \in {cell_range_from_data_offset(LE32(data_offset))} :
        IsOk(cell_range) /\ IsOk(from_cell_range(cell_range.val))

\* byte i of the cell area lies in the volatile subkey count field of a
\* Key Node cell
InVolatileSubkeyCount(i) ==
    \E field \in KN_volatile_subkey_count..(KN_volatile_subkey_count + 3) :
        /\ i >= field + CELL_HEADER_SIZE
        /\ KeyNodeAt(i - field - CELL_HEADER_SIZE)

(* C18: whether the call succeeds or fails, and at every point of it, the   *)
(* base block is as it was before the call, the cell area has the length    *)
(* it had, and every byte of the cell area that differs from what it was    *)
(* before the call is one of the 4 bytes of the volatile subkey count       *)
(* (bytes 24..28 of the cell body) of a Key Node cell.                      *)
C18_Locality ==
    call.op = "clear_volatile_subkeys" =>
        /\ base_block = call.before.base_block
        /\ data.len = call.before.data.len
        /\ Len(data.bytes) = Len(call.before.data.bytes)
        /\ \A i \in 0..(Len(data.bytes) - 1) :
              DataByte(i) # call.before.data.bytes[i + 1] => InVolatileSubkeyCount(i)

\* a first call has failed after it had written the counts of three or
\* more Key Nodes
C18_Witness ==
    /\ Returned /\ res.kind = "Err" /\ call.run = 1
    /\ Len(log) >= 3
    /\ Cardinality({i \in 0..(Len(data.bytes) - 1) :
                        DataByte(i) # call.before.data.bytes[i + 1]}) >= 3

(* C19: a second call of clear_volatile_subkeys leaves the bytes the first  *)
(* call left and returns what the first call returned, on every buffer.     *)
C19_Idempotent ==
    (Returned /\ call.run >= 2) =>
        /\ data = call.before.data
        /\ res = call.previous

\* the parts of C19 the code keeps: a second call changes no byte, and on a
\* hive in which no subkeys list lies inside a Key Node header it returns
\* what the first call returned
C19_SameBytes ==
    (Returned /\ call.run >= 2) =>
        /\ data = call.before.data
        /\ DataSlice(OverlapKeyOffset + CELL_HEADER_SIZE + 20, 2) # SigOf("li")
           => res = call.previous

\* the Key Nodes of a pre-order that precede its first failure, each as the
\* offset of its header
RECURSIVE Preceding(_)
Preceding(pre_order) ==
    IF pre_order = << >> \/ ~IsOk(Head(pre_order)) THEN << >>
    ELSE << Head(pre_order).val.header_range.start >> \o Preceding(Tail(pre_order))

\* what the call returns for a pre-order: its first failure, or Ok(())
Outcome(pre_order) ==
    IF IsOk(pre_order[Len(pre_order)]) THEN Ok("unit") ELSE pre_order[Len(pre_order)]

(* C20: the counts are written in pre-order (a Key Node before its subkeys, *)
(* the subkeys in list order): at every point of a call the Key Nodes       *)
(* written so far are the first ones of the pre-order of the hive; when the *)
(* call returns, it returns the first failure of the pre-order with exactly *)
(* the Key Nodes before that failure written, or Ok with all written.       *)
C20_PreOrder ==
    call.op = "clear_volatile_subkeys" =>
        \A written \in {Preceding(call.pre_order)} :
            /\ Len(log) <= Len(written)
            /\ log = SubSeq(written, 1, Len(log))
            /\ Returned => (log = written /\ res = Outcome(call.pre_order))

\* a call has failed below the root with some Key Nodes written and others,
\* behind the failure, not written
C20_Witness ==
    /\ Returned /\ res.kind = "Err" /\ call.run = 1
    /\ Len(log) >= 2 /\ Len(log) < 6
    /\ \E data_offset \in 0..(Len(data.bytes) - KEY_NODE_HEADER_SIZE) :
          /\ KeyNodeAt(data_offset)
          /\ DataSlice(data_offset + CELL_HEADER_SIZE + KN_volatile_subkey_count, 4) # LE32(0)

----------------------------------------------------------------------------
(* Claims on the iteration over subkeys and values.                         *)

\* the iterator as hive.root_key_node()?.subkeys() (values()) makes it
FreshIterator ==
    IF call.op = "values" THEN Try(root_key_node, LAMBDA key_node : values(key_node)).val
    ELSE Try(root_key_node, LAMBDA key_node : KeyNode_subkeys(key_node)).val

\* the number of items of the list iterated over
ItemCount ==
    IF call.op = "values"
    THEN RangeLen(FreshIterator.items_range) \div KEY_VALUES_LIST_ITEM_SIZE
    ELSE LeafItemRanges_len(FreshIterator.leaf_item_ranges)

\* the four bytes the k-th item of the list stores
StoredOffset(k) ==
    IF call.op = "values"
    THEN DataSlice(FreshIterator.items_range.start + (k - 1) * KEY_VALUES_LIST_ITEM_SIZE, 4)
    ELSE key_node_offset(LeafItemRanges_nth(FreshIterator.leaf_item_ranges, k - 1).val)

\* what the k-th item of the list resolves to, taken on its own
KthItem(k) ==
    IF call.op = "values"
    THEN Try(cell_range_from_data_offset(StoredOffset(k)),
             LAMBDA cell_range : KeyValue_new(cell_range))
    ELSE from_leaf_item_range(LeafItemRanges_nth(FreshIterator.leaf_item_ranges, k - 1).val)

\* an iterator over the values, or over the subkeys of a Leaf, has been made
Iterating ==
    IF iterator = NoCall THEN FALSE
    ELSE call.op = "values" \/ (call.op = "subkeys" /\ iterator.iter.variant = "Leaf")

\* C21: the k-th next() of LeafKeyNodes and of KeyValues returns Some(Ok) or
\* Some(Err) for the k-th item of the list, whatever the earlier calls
\* returned (an item that is well-formed on its own is returned as Ok), and
\* None after as many items as the list has.
C21_KthItem ==
    Iterating =>
        \A k \in 1..Len(log) :
            IF k <= ItemCount
            THEN log[k].item = KthItem(k) /\ log[k].item.kind \in {"Ok", "Err"}
            ELSE log[k].item = None

\* C21, for lists none of whose items stores 0xFFFFFFFF
C21_KthItemNoSentinel ==
    (Iterating /\ \A k \in 1..ItemCount : StoredOffset(k) # SentinelBytes) =>
        \A k \in 1..Len(log) :
            IF k <= ItemCount
            THEN log[k].item = KthItem(k) /\ log[k].item.kind \in {"Ok", "Err"}
            ELSE log[k].item = None

\* an Ok item was returned after an Err item, and then None
C21_Witness ==
    /\ Iterating
    /\ \E j, k \in 1..Len(log) :
          j < k /\ log[j].item.kind = "Err" /\ log[k].item.kind = "Ok"
    /\ Len(log) > ItemCount
    /\ log[Len(log)].item = None

----------------------------------------------------------------------------
(* Claims on the comparison of names.                                       *)

\* the stored name as the name lookup of the specification reads it: one
\* byte per character, or UTF-16LE
AsLatin1(name) == IF name.enc = "Ascii" THEN Latin1(name.bytes) ELSE name

IsAscii(cs) == \A i \in 1..Len(cs) : cs[i] >= 0 /\ cs[i] < 128

\* C22: a stored name matches a query exactly when their code points (each
\* byte of a single-byte name being the code point of its value) are equal
\* after the case fold of every code point of the Basic Multilingual Plane,
\* code points above U+FFFF being compared exactly; a UTF-16LE name with an
\* invalid surrogate sequence matches no query.
C22_NameEquality ==
    call.op = "eq_ignore_ascii_case" =>
        res.val = (Fold(CodePoints(AsLatin1(call.name))) = Fold(call.query))

\* C22, case fold: for names and queries of ASCII characters the comparison
\* is the equality of the case-folded code points
C22_AsciiFold ==
    (/\ call.op = "eq_ignore_ascii_case"
     /\ IsAscii(CodePoints(AsLatin1(call.name)))
     /\ IsAscii(call.query)) =>
        res.val = (Fold(CodePoints(AsLatin1(call.name))) = Fold(call.query))

\* C22, above U+FFFF and invalid sequences: a name matches no query that
\* differs from it in a code point above U+FFFF, and a UTF-16LE name with
\* an unpaired surrogate matches no query
C22_AboveBmpExact ==
    (call.op \in {"eq_ignore_ascii_case", "eq_str"} /\ call.name.enc = "Utf16LE") =>
        Let(CodePoints(call.name), LAMBDA cs :
            /\ (\E i \in 1..Len(cs) : cs[i] = Invalid) => ~res.val
            /\ (/\ Len(cs) = Len(call.query)
                /\ \E i \in 1..Len(cs) :
                      cs[i] # call.query[i] /\ (cs[i] > 65535 \/ call.query[i] > 65535))
               => ~res.val)

----------------------------------------------------------------------------
(* Claims on the checksum of the base block.                                *)

\* bit b of the byte n
BitOf(n, b) == (n \div (2 ^ b)) % 2

\* byte i (1..4) of the XOR of the 127 little-endian 32-bit words of the
\* bytes [0, 508): a bit is set when it is set in an odd number of words
XorLane(i) ==
    LET Odd(b) == Cardinality({k \in 0..126 : BitOf(base_block[4 * k + i], b) = 1}) % 2
    IN  Odd(0) + 2 * Odd(1) + 4 * Odd(2) + 8 * Odd(3)
        + 16 * Odd(4) + 32 * Odd(5) + 64 * Odd(6) + 128 * Odd(7)

XorOfWords == << XorLane(1), XorLane(2), XorLane(3), XorLane(4) >>

\* 0 becomes 1 and 0xFFFFFFFF becomes 0xFFFFFFFE
Normalized(x) ==
    IF x = << 0, 0, 0, 0 >> THEN << 1, 0, 0, 0 >>
    ELSE IF x = << 255, 255, 255, 255 >> THEN << 254, 255, 255, 255 >>
    ELSE x

StoredChecksum == Slice(base_block, 508, 4)

\* C23: validate_checksum succeeds exactly when the XOR of the 127 words of
\* the bytes [0, 508), with 0 replaced by 1 and 0xFFFFFFFF by 0xFFFFFFFE, is
\* the u32 stored at offset 508, and returns InvalidChecksum otherwise.
C23_Checksum ==
    call.op = "validate_checksum" =>
        IF StoredChecksum = Normalized(XorOfWords) THEN res = Ok("unit")
        ELSE res.kind = "Err" /\ res.err.name = "InvalidChecksum"

\* the words XOR to 0 and the stored checksum 1 is accepted
C23_Witness ==
    /\ call.op = "validate_checksum"
    /\ XorOfWords = << 0, 0, 0, 0 >>
    /\ StoredChecksum = << 1, 0, 0, 0 >>
    /\ res = Ok("unit")

\* C24: the validation passes when the stored checksum is the XOR of the
\* words as it is or the normalized XOR (a XOR of 0 with a stored 0, and a
\* XOR of 0xFFFFFFFF with a stored 0xFFFFFFFF, are accepted).
C24_Lenient ==
    (call.op = "validate_checksum"
     /\ StoredChecksum \in {XorOfWords, Normalized(XorOfWords)}) =>
        res = Ok("unit")

----------------------------------------------------------------------------
(* Claims on the iteration over the subkeys of an Index Root.               *)

\* the subkeys list of the root Key Node
RootList ==
    Try(root_key_node, LAMBDA key_node :
    Try(subkeys_cell_range(key_node), LAMBDA cell_range :
        SubkeysList_new_internal(cell_range, TRUE)))

RootIsIndexRoot ==
    IF ~IsOk(RootList) THEN FALSE
    ELSE DataSlice(RootList.val.header_range.start, 2) = SigOf("ri")

\* the number of items of the Index Root of the root Key Node
RootItemCount == SubkeysList_count(RootList.val)

\* the cell the g-th item of the Index Root refers to, and its signature
RootItemCell(g) ==
    cell_range_from_data_offset(
        DataSlice(RootList.val.data_range.start + INDEX_ROOT_ITEM_SIZE * (g - 1), 4)).val

RootItemSignature(g) == DataSlice(RootItemCell(g).start, 2)

LeafSignatures == {SigOf("lf"), SigOf("lh"), SigOf("li")}

\* the items of the Index Root that do not refer to a Leaf, in list order
RECURSIVE NonLeafItemsFrom(_)
NonLeafItemsFrom(g) ==
    IF g > RootItemCount THEN << >>
    ELSE (IF RootItemSignature(g) \in LeafSignatures THEN << >> ELSE << g >>)
         \o NonLeafItemsFrom(g + 1)

\* r is the error InvalidTwoByteSignature for the g-th item of the Index Root
SignatureErrorFor(r, g) ==
    /\ r.kind = "Err"
    /\ r.err.name = "InvalidTwoByteSignature"
    /\ r.err.offset = offset_of_data_offset(RootItemCell(g).start)
    /\ r.err.actual = RootItemSignature(g)

IsSignatureError(r) ==
    IF r.kind = "Err" THEN r.err.name = "InvalidTwoByteSignature" ELSE FALSE

LoggedSignatureErrors == SelectSeq(log, LAMBDA e : IsSignatureError(e.item))

\* an Index Root elsewhere in the hive has an item that refers to the
\* subkeys list of the root Key Node
RootListIsNested ==
    \E o \in 0..(Len(data.bytes) - 12) :
        /\ DataSlice(o + 4, 2) = SigOf("ri")
        /\ o + 4 # RootList.val.header_range.start
        /\ \E g \in 1..U16Of(DataSlice(o + 6, 2)) :
              DataSlice(o + 8 + INDEX_ROOT_ITEM_SIZE * (g - 1), 4)
                  = LE32(RootList.val.header_range.start - CELL_HEADER_SIZE)

\* C25: an item of an Index Root that refers to a cell with the signature
\* 'ri', or any other than lf, lh, li, is reported as InvalidTwoByteSignature
\* for that item by the iteration over the subkeys (once per such item, in
\* list order) and by the lookup that probes it, while an Index Root
\* referenced from a Key Node is accepted, also when it is the one an item
\* of another Index Root refers to.
C25_NoNesting ==
    RootIsIndexRoot =>
        /\ call.op \in {"subkeys", "iter"} =>
              /\ iterator # NoCall
              /\ Len(LoggedSignatureErrors) <= Len(NonLeafItemsFrom(1))
              /\ \A k \in 1..Len(LoggedSignatureErrors) :
                    SignatureErrorFor(LoggedSignatureErrors[k].item, NonLeafItemsFrom(1)[k])
              /\ (\E k \in 1..Len(log) : log[k].item = None) =>
                    Len(LoggedSignatureErrors) = Len(NonLeafItemsFrom(1))
        /\ call.op = "subkey" =>
              Let((RootItemCount - 1) \div 2 + 1, LAMBDA g :
                  IF RootItemSignature(g) \in LeafSignatures THEN ~IsSignatureError(res)
                                                                  \/ \E h \in 1..RootItemCount :
                                                                        SignatureErrorFor(res, h)
                  ELSE SignatureErrorFor(res, g))

\* the iteration has returned a Key Node and then the error for an item that
\* refers to an Index Root, and has come to its end
C25_Witness ==
    /\ RootIsIndexRoot
    /\ call.op \in {"subkeys", "iter"}
    /\ \E j, k \in 1..Len(log) :
          /\ j < k
          /\ log[j].item.kind = "Ok"
          /\ IsSignatureError(log[k].item)
          /\ log[k].item.err.actual = SigOf("ri")
    /\ log[Len(log)].item = None

\* the lookup has probed an item that refers to an Index Root
C25_LookupProbed ==
    /\ RootIsIndexRoot
    /\ call.op = "subkey"
    /\ IsSignatureError(res)
    /\ res.err.actual = SigOf("ri")

\* the Index Root of the root Key Node is the one an item of another Index
\* Root refers to, and the iteration has returned its Key Node
C25_Direct ==
    /\ RootIsIndexRoot
    /\ call.op \in {"subkeys", "iter"}
    /\ Len(log) = 2
    /\ log[1].item.kind = "Ok"
    /\ log[2].item = None
    /\ RootListIsNested

\* the Key Node the i-th item of the Leaf in the cell refers to
LeafCellItem(cell_range, i) ==
    Let(IF DataSlice(cell_range.start, 2) = SigOf("li") THEN 4 ELSE 8, LAMBDA size :
        Try(cell_range_from_data_offset(
                DataSlice(cell_range.start + SUBKEYS_LIST_HEADER_SIZE + size * (i - 1), 4)),
            LAMBDA key_node_cell : from_cell_range(key_node_cell)))

\* the Key Nodes of the items of the Leaf in the cell, in list order
LeafCellItems(cell_range) ==
    [i \in 1..U16Of(DataSlice(cell_range.start + 2, 2)) |-> LeafCellItem(cell_range, i)]

\* the item lists of the Leafs g.. of the Index Root, one after the other
RECURSIVE ConcatenationFrom(_)
ConcatenationFrom(g) ==
    IF g > RootItemCount THEN << >>
    ELSE LeafCellItems(RootItemCell(g)) \o ConcatenationFrom(g + 1)

\* every item of the Index Root refers to a Leaf
AllLeafs == RootIsIndexRoot /\ NonLeafItemsFrom(1) = << >>

\* a Leaf of the Index Root has no items
SomeEmptyLeaf ==
    \E g \in 1..RootItemCount : U16Of(DataSlice(RootItemCell(g).start + 2, 2)) = 0

\* C26: the iteration over the subkeys under an Index Root returns the Key
\* Nodes of the first Leaf in list order, then those of the second, and so
\* on: the k-th next() returns the k-th entry of the concatenation of the
\* item lists, and None after as many entries as the counts sum up to; a
\* Leaf without items contributes nothing and does not end the iteration.
C26_Concatenation ==
    (AllLeafs /\ call.op \in {"subkeys", "iter"}) =>
        \A k \in 1..Len(log) :
            IF k <= Len(ConcatenationFrom(1)) THEN log[k].item = ConcatenationFrom(1)[k]
            ELSE log[k].item = None

\* C26 for subkeys() on an Index Root all of whose Leafs have items
C26_NonEmptyLeafs ==
    (AllLeafs /\ call.op = "subkeys" /\ ~SomeEmptyLeaf) =>
        \A k \in 1..Len(log) :
            IF k <= Len(ConcatenationFrom(1)) THEN log[k].item = ConcatenationFrom(1)[k]
            ELSE log[k].item = None

\* C26 for SubkeysList::iter(): the items returned are entries of the
\* concatenation in their order, and a Leaf without items does not end the
\* iteration
C26_InOrder ==
    (AllLeafs /\ call.op = "iter") =>
        \E pick \in SUBSET (1..Len(ConcatenationFrom(1))) :
            /\ Cardinality(pick) = Len(SelectSeq(log, LAMBDA e : e.item # None))
            /\ \A k \in 1..Len(log) :
                  IF k <= Cardinality(pick)
                  THEN log[k].item = ConcatenationFrom(1)[
                           CHOOSE i \in pick : Cardinality({j \in pick : j <= i}) = k]
                  ELSE log[k].item = None

----------------------------------------------------------------------------
(* Claims on the iterators over a Hash Leaf and an Index Leaf.              *)

\* the cell of the subkeys list of the root Key Node, from its header on
RootListCell == Range(RootList.val.header_range.start, RootList.val.data_range.end)

\* the subkeys list of the root Key Node is a Hash Leaf or an Index Leaf all of
\* whose items refer to Key Nodes, and SubkeysList::iter() has been called
OverWellFormedLeaf ==
    IF call.op # "iter" \/ ~IsOk(RootList) \/ iterator = NoCall THEN FALSE
    ELSE /\ DataSlice(RootListCell.start, 2) \in {SigOf("lh"), SigOf("li")}
         /\ \A i \in 1..RootItemCount : IsOk(LeafCellItem(RootListCell, i))

\* C27: the iterator over a Hash Leaf or Index Leaf of count well-formed
\* items returns count Key Nodes: the i-th next() returns the Key Node of
\* the i-th item, next() returns None after count items, and size_hint() is
\* the number of items still to be returned.
C27_EveryItem ==
    OverWellFormedLeaf =>
        /\ \A k \in 1..Len(log) :
              IF k <= RootItemCount THEN log[k].item = LeafCellItem(RootListCell, k)
              ELSE log[k].item = None
        /\ HashLeafIter_size_hint(iterator.iter)
              = IF Len(log) <= RootItemCount THEN RootItemCount - Len(log) ELSE 0

\* C27 for a Leaf of at most one item
C27_SingleItem ==
    (OverWellFormedLeaf /\ RootItemCount <= 1) =>
        /\ \A k \in 1..Len(log) :
              IF k <= RootItemCount THEN log[k].item = LeafCellItem(RootListCell, k)
              ELSE log[k].item = None
        /\ HashLeafIter_size_hint(iterator.iter)
              = IF Len(log) <= RootItemCount THEN RootItemCount - Len(log) ELSE 0

\* C27, the items returned: the k-th Key Node returned is that of the item
\* 2k - 1, and there are no more than half of the items (rounded up)
C27_EverySecondItem ==
    OverWellFormedLeaf =>
        \A k \in 1..Len(log) :
            IF 2 * k - 1 <= RootItemCount
            THEN log[k].item = LeafCellItem(RootListCell, 2 * k - 1)
            ELSE log[k].item = None

----------------------------------------------------------------------------
(* Claims on the shortcuts of BigDataSlices.                                *)

\* the items repeated calls of next() return on the iterator, up to the
\* first None
RECURSIVE Remaining(_)
Remaining(self) ==
    Let(BigDataSlices_next(self), LAMBDA step :
        IF step.item = None THEN << >>
        ELSE IF step.item = Panic THEN << Panic >>
        ELSE << step.item >> \o Remaining(step.iter))

\* the item of the call n + 1 of next() on the iterator
SequentialNth(self, n) ==
    IF n >= 0 /\ n + 1 <= Len(Remaining(self)) THEN Remaining(self)[n + 1] ELSE None

HasSlices == big_data_slices # NoCall /\ res.kind # "Panic"

\* C28: on every iterator over Big Data, size_hint() and count() are the
\* number of items repeated next() will still return, last() is the last of
\* these items, and nth(n) is the item of n + 1 calls of next() -- also when
\* the header declares more segments than the data size needs.
C28_Shortcuts ==
    HasSlices =>
        /\ BigDataSlices_size_hint(big_data_slices) = Len(Remaining(big_data_slices))
        /\ BigDataSlices_count(big_data_slices) = Len(Remaining(big_data_slices))
        /\ BigDataSlices_last(big_data_slices)
              = SequentialNth(big_data_slices, Len(Remaining(big_data_slices)) - 1)
        /\ \A n \in 0..MaxSegments \cup NthArgs :
              BigDataSlices_nth(big_data_slices, n).item = SequentialNth(big_data_slices, n)

\* C28, nth: nth(n) is the item of n + 1 calls of next()
C28_Nth ==
    HasSlices =>
        \A n \in 0..MaxSegments \cup NthArgs :
            BigDataSlices_nth(big_data_slices, n).item = SequentialNth(big_data_slices, n)

\* C28, on an iterator as data() returns it, or advanced by next() only,
\* over a value whose header declares as many segments as the data size
\* needs
C28_ExactSegments ==
    (/\ HasSlices
     /\ \A k \in 1..Len(log) : log[k].op = "next"
     /\ BigDataSlices_size_hint(big_data_slices)
           = SegmentsNeeded(big_data_slices.bytes_left)) =>
        /\ BigDataSlices_count(big_data_slices) = Len(Remaining(big_data_slices))
        /\ BigDataSlices_last(big_data_slices)
              = SequentialNth(big_data_slices, Len(Remaining(big_data_slices)) - 1)

\* ---------------------------------------------------------------------
\* C29
\* ---------------------------------------------------------------------

\* a call of hive.clear_volatile_subkeys() is over: it has returned, or the
\* process has been aborted
ClearIsOver == call.op = "clear_volatile_subkeys" /\ stack = << >>

\* some Key Node has been cleared more than once in the call
VisitedTwice == \E i \in 1..Len(log) : \E j \in 1..Len(log) : i < j /\ log[i] = log[j]

\* C29: clear_volatile_subkeys terminates on every input buffer: on a hive
\* in which the subkeys list of a Key Node refers to the Key Node itself or
\* to one of its ancestors, the call returns Ok or an error; it does not
\* recurse until the call stack is exhausted.
C29_Returns == ClearIsOver => IsOk(res) \/ res.kind = "Err"

\* the part of C29 that holds: the call recurses without end on a cycle
\* only; on every other hive it returns
C29_ReturnsWithoutCycle == ClearIsOver /\ ~VisitedTwice => IsOk(res) \/ res.kind = "Err"

\* ---------------------------------------------------------------------
\* C30
\* ---------------------------------------------------------------------

\* a search is at the head of its loop
Searching == stack # << >> /\ Top.pc = "loop"

\* the count of the list that is searched
SearchedCount ==
    IF Top.variant = "Leaf" THEN LeafItemRanges_len(Top.ranges)
    ELSE IndexRootItemRanges_len(Top.ranges)

\* the item of the searched list at index n
SearchedNth(n) ==
    IF Top.variant = "Leaf" THEN LeafItemRanges_nth(Top.ranges, n)
    ELSE IndexRootItemRanges_nth(Top.ranges, n)

I32_MAX == 2147483647

InI32(x) == x >= (0 - I32_MAX) - 1 /\ x <= I32_MAX

RECURSIVE Log2Floor(_)
Log2Floor(n) == IF n <= 1 THEN 0 ELSE 1 + Log2Floor(n \div 2)

\* the most iterations a search over `count` items makes
MostProbes(count) == IF count = 0 THEN 0 ELSE Log2Floor(count) + 1

\* C30: in both binary searches, for every item count from 0 to 65535 and
\* any names, each iteration has 0 <= left <= mid <= right < count, the
\* item at index mid exists (the unwrap of nth(mid) does not fail) and the
\* signed 32-bit arithmetic does not overflow; right - left shrinks on every
\* iteration that does not return, the search makes at most
\* floor(log2(count)) + 1 iterations, and with count 0 it makes none.
C30_Indexes ==
    /\ res # Panic
    /\ Searching =>
          /\ SearchedCount <= U16_MAX
          /\ InI32(Top.left) /\ InI32(Top.right) /\ InI32(Top.left + Top.right)
          /\ Top.probes <= MostProbes(SearchedCount)
          /\ Top.left <= Top.right =>
                \E mid \in {(Top.left + Top.right) \div 2} :
                   /\ 0 <= Top.left /\ Top.left <= mid
                   /\ mid <= Top.right /\ Top.right < SearchedCount
                   /\ IsOk(SearchedNth(mid))
                   /\ InI32(mid + 1) /\ InI32(mid - 1)
          /\ Top.probed # None =>
                /\ 0 <= Top.probed.left /\ Top.probed.left <= Top.probed.mid
                /\ Top.probed.mid <= Top.probed.right /\ Top.probed.right < SearchedCount
                /\ Top.right - Top.left < Top.probed.right - Top.probed.left
          /\ SearchedCount = 0 => Top.probes = 0 /\ Top.left > Top.right

\* a search over 65535 items has made its sixteen iterations and ends
\* without a match, in a Leaf and in an Index Root
C30_Witness ==
    /\ Searching
    /\ Top.variant = "IndexRoot"
    /\ SearchedCount = U16_MAX
    /\ Top.probes = MostProbes(U16_MAX)
    /\ Top.probes = 16
    /\ Top.left > Top.right

C30_LeafWitness ==
    /\ Searching
    /\ Top.variant = "Leaf"
    /\ SearchedCount = U16_MAX
    /\ Top.probes = 16
    /\ Top.probed # None /\ Top.probed.mid = U16_MAX - 1

\* a list without items is searched: not found, without an iteration
C30_EmptyWitness ==
    /\ Searching
    /\ SearchedCount = 0
    /\ Top.probes = 0

====
